---- MODULE Spec2Model ----
(***************************************************************************)
(* Fitness Copilot backend: the Brain (conversation-to-action engine), the *)
(* context builder, and the chat routes that persist messages and logs.    *)
(* Message texts are TLA+ strings; substring tests, lower-casing and       *)
(* lengths are computed on the strings themselves.                         *)
(***************************************************************************)
EXTENDS Integers, Sequences, FiniteSets, TLC

\* ---------------------------------------------------------------- bounds
MaxMsgs == 2        \* rows of chat_message, with every route in use (Spec)
MaxDayMsgs == 4     \* rows of chat_message, text logging and day changes (SpecDay)
MaxConfirms == 2    \* POST /chat/messages/{id}/confirm requests
MaxHistMsgs == 11   \* rows of chat_message in the chat-history specification
NumDays == 2        \* simulated days in use (the program allows 0..6)
MaxDayUpdates == 2  \* PUT /me/day requests

\* ------------------------------------------------------ program constants
MAX_CHAT_HISTORY == 10
MAX_CHAT_HISTORY_CHARS == 10000

\* Python None: of a string value, of a number, of an object or dict
None == "None"
Null == -1000000
Nil == << >>
Users == {"u1", "u2"}
Days == 0..(NumDays - 1)

\* ------------------------------------------------------- string helpers
Contains(s, k) ==
    \E i \in 1..(Len(s) - Len(k) + 1) : SubSeq(s, i, i + Len(k) - 1) = k

Upper == <<"A", "B", "C", "D", "E", "F", "G", "H", "I", "J", "K", "L", "M",
           "N", "O", "P", "Q", "R", "S", "T", "U", "V", "W", "X", "Y", "Z">>
Lowercase == <<"a", "b", "c", "d", "e", "f", "g", "h", "i", "j", "k", "l", "m",
               "n", "o", "p", "q", "r", "s", "t", "u", "v", "w", "x", "y", "z">>

LowerChar(c) ==
    IF \E i \in DOMAIN Upper : Upper[i] = c
    THEN Lowercase[CHOOSE i \in DOMAIN Upper : Upper[i] = c]
    ELSE c

RECURSIVE Lower(_)
Lower(s) ==
    IF Len(s) = 0 THEN ""
    ELSE IF Len(s) = 1 THEN LowerChar(s)
    ELSE Lower(SubSeq(s, 1, Len(s) \div 2))
             \o Lower(SubSeq(s, Len(s) \div 2 + 1, Len(s)))

\* dict.get(key, default)
Get(d, k, default) == IF k \in DOMAIN d THEN d[k] ELSE default

\* Python truthiness of a dict-or-None value
Truthy(d) == DOMAIN d # {}

\* rank of entry i when a table is sorted by key length, longest first;
\* sorted() is stable, so equal lengths keep their table order
LongestFirst(keys) ==
    LET rank(i) == Cardinality({j \in DOMAIN keys :
                       \/ Len(keys[j]) > Len(keys[i])
                       \/ Len(keys[j]) = Len(keys[i]) /\ j < i})
    IN  [k \in DOMAIN keys |-> CHOOSE i \in DOMAIN keys : rank(i) = k - 1]

\* -------------------------------------------------------------- lexicon
\* protein, carbs and fat are kept in tenths of a gram
FoodMacros(cal, p, c, f) == [calories |-> cal, protein |-> p, carbs |-> c, fat |-> f]

FOOD_DB == <<
    [name |-> "grilled chicken salad",    macros |-> FoodMacros(450, 420, 180, 220)],
    [name |-> "chicken salad",            macros |-> FoodMacros(450, 420, 180, 220)],
    [name |-> "oatmeal with berries",     macros |-> FoodMacros(320, 120, 520, 80)],
    [name |-> "oatmeal",                  macros |-> FoodMacros(320, 120, 520, 80)],
    [name |-> "eggs and avocado toast",   macros |-> FoodMacros(480, 220, 350, 280)],
    [name |-> "avocado toast",            macros |-> FoodMacros(480, 220, 350, 280)],
    [name |-> "rice and grilled chicken", macros |-> FoodMacros(550, 450, 550, 120)],
    [name |-> "rice and chicken",         macros |-> FoodMacros(550, 450, 550, 120)],
    [name |-> "protein shake",            macros |-> FoodMacros(200, 300, 100, 40)],
    [name |-> "shake",                    macros |-> FoodMacros(200, 300, 100, 40)],
    [name |-> "banana",                   macros |-> FoodMacros(105, 13, 270, 4)],
    [name |-> "chicken",                  macros |-> FoodMacros(165, 310, 0, 36)],
    [name |-> "rice",                     macros |-> FoodMacros(206, 43, 450, 4)],
    [name |-> "eggs",                     macros |-> FoodMacros(155, 130, 11, 110)],
    [name |-> "oats",                     macros |-> FoodMacros(150, 50, 270, 30)],
    [name |-> "salmon",                   macros |-> FoodMacros(208, 200, 0, 130)],
    [name |-> "broccoli",                 macros |-> FoodMacros(55, 37, 110, 6)],
    [name |-> "apple",                    macros |-> FoodMacros(95, 5, 250, 3)],
    [name |-> "bread",                    macros |-> FoodMacros(79, 27, 150, 10)],
    [name |-> "milk",                     macros |-> FoodMacros(149, 80, 120, 80)] >>

FOOD_KEYWORDS ==
    {"ate", "eaten", "had", "breakfast", "lunch", "dinner", "snack", "eating", "eat"}

EXERCISE_MAP == <<
    [keyword |-> "incline dumbbell press", exercise |-> "Incline Dumbbell Press"],
    [keyword |-> "incline bench press",    exercise |-> "Incline Bench Press"],
    [keyword |-> "flat bench press",       exercise |-> "Bench Press"],
    [keyword |-> "bench press",            exercise |-> "Bench Press"],
    [keyword |-> "dumbbell press",         exercise |-> "Dumbbell Press"],
    [keyword |-> "incline press",          exercise |-> "Incline Dumbbell Press"],
    [keyword |-> "bench",                  exercise |-> "Bench Press"],
    [keyword |-> "barbell squat",          exercise |-> "Barbell Squat"],
    [keyword |-> "squat",                  exercise |-> "Barbell Squat"],
    [keyword |-> "romanian deadlift",      exercise |-> "Romanian Deadlift"],
    [keyword |-> "rdl",                    exercise |-> "Romanian Deadlift"],
    [keyword |-> "deadlift",               exercise |-> "Deadlift"],
    [keyword |-> "overhead press",         exercise |-> "Overhead Press"],
    [keyword |-> "shoulder press",         exercise |-> "Overhead Press"],
    [keyword |-> "military press",         exercise |-> "Overhead Press"],
    [keyword |-> "leg press",              exercise |-> "Leg Press"],
    [keyword |-> "legpress",               exercise |-> "Leg Press"],
    [keyword |-> "press",                  exercise |-> "Overhead Press"],
    [keyword |-> "barbell row",            exercise |-> "Barbell Row"],
    [keyword |-> "row",                    exercise |-> "Barbell Row"],
    [keyword |-> "bicep curl",             exercise |-> "Bicep Curl"],
    [keyword |-> "curl",                   exercise |-> "Bicep Curl"],
    [keyword |-> "pullup",                 exercise |-> "Pull-up"],
    [keyword |-> "pull-up",                exercise |-> "Pull-up"],
    [keyword |-> "pull up",                exercise |-> "Pull-up"],
    [keyword |-> "lat pulldown",           exercise |-> "Lat Pulldown"],
    [keyword |-> "pulldown",               exercise |-> "Lat Pulldown"],
    [keyword |-> "dip",                    exercise |-> "Dips"],
    [keyword |-> "dips",                   exercise |-> "Dips"],
    [keyword |-> "lunge",                  exercise |-> "Lunges"],
    [keyword |-> "lunges",                 exercise |-> "Lunges"],
    [keyword |-> "calf raise",             exercise |-> "Calf Raises"],
    [keyword |-> "calf",                   exercise |-> "Calf Raises"] >>

EXERCISE_KEYWORDS ==
    {"bench", "squat", "deadlift", "press", "row", "curl", "sets", "reps", "kg",
     "lbs", "pullup", "pull-up", "pull up", "pulldown", "dip", "dips",
     "leg press", "legpress", "lunge", "lunges", "calf", "rdl", "romanian",
     "incline", "dumbbell", "barbell", "military", "shoulder", "overhead"}

\* ------------------------------------------------- regular expressions
Char(s, i) == IF i >= 1 /\ i <= Len(s) THEN SubSeq(s, i, i) ELSE ""

Digits == <<"0", "1", "2", "3", "4", "5", "6", "7", "8", "9">>
IsDigit(c) == \E d \in DOMAIN Digits : Digits[d] = c
DigitVal(c) == (CHOOSE d \in DOMAIN Digits : Digits[d] = c) - 1
IsSpace(c) == c = " "

StartsAt(s, i, k) == i >= 1 /\ i + Len(k) - 1 <= Len(s) /\ SubSeq(s, i, i + Len(k) - 1) = k

\* last index of the run of digits that starts at i (Char(s, i) is a digit)
DigitRunEnd(s, i) ==
    CHOOSE e \in i..Len(s) :
        /\ \A j \in i..e : IsDigit(Char(s, j))
        /\ ~IsDigit(Char(s, e + 1))

\* first index at or after i that holds no white space
SkipSpaces(s, i) ==
    CHOOSE e \in i..(Len(s) + 1) :
        /\ \A j \in i..(e - 1) : IsSpace(Char(s, j))
        /\ ~IsSpace(Char(s, e))

RECURSIVE ParseInt(_)
ParseInt(s) ==
    IF Len(s) = 0 THEN 0
    ELSE 10 * ParseInt(SubSeq(s, 1, Len(s) - 1)) + DigitVal(Char(s, Len(s)))

Min(S) == CHOOSE x \in S : \A y \in S : x <= y

\* re.search(r"(\d+)\s*(?:<unit>)", s): start positions of a match, where
\* units lists the alternatives of the trailing group (their optional
\* last letter dropped: "sets?" matches wherever "set" does)
NumberThenUnit(s, units) ==
    {i \in 1..Len(s) :
        /\ IsDigit(Char(s, i))
        /\ \E u \in units : StartsAt(s, SkipSpaces(s, DigitRunEnd(s, i) + 1), u)}

\* re.search(r"(?:x|for)\s*(\d+)(?:\s*reps?)?", s): start positions of a match
PrefixThenNumber(s) ==
    {i \in 1..Len(s) :
        \E p \in {"x", "for"} :
            /\ StartsAt(s, i, p)
            /\ IsDigit(Char(s, SkipSpaces(s, i + Len(p))))}

\* text of the digits that start at i
DigitsAt(s, i) == SubSeq(s, i, DigitRunEnd(s, i))

\* weights are kept in millionths of a kilogram
KG == 1000000
LBS_TO_KG == 453592

RECURSIVE Pow10(_)
Pow10(n) == IF n = 0 THEN 1 ELSE 10 * Pow10(n - 1)

\* float() of the text "<int>" or "<int>.<frac>", in millionths
ParseDecimal(s) ==
    LET dot == {i \in 1..Len(s) : Char(s, i) = "."}
    IN  IF dot = {} THEN ParseInt(s) * KG
        ELSE LET d    == Min(dot)
                 frac == SubSeq(s, d + 1, Len(s))
                 kept == SubSeq(frac, 1, IF Len(frac) > 6 THEN 6 ELSE Len(frac))
             IN  ParseInt(SubSeq(s, 1, d - 1)) * KG + ParseInt(kept) * Pow10(6 - Len(kept))

\* end of r"\d+(?:\.\d+)?" matched greedily from i
DecimalEnd(s, i) ==
    LET e == DigitRunEnd(s, i)
    IN  IF Char(s, e + 1) = "." /\ IsDigit(Char(s, e + 2))
        THEN DigitRunEnd(s, e + 2) ELSE e

\* re.search(r"(\d+(?:\.\d+)?)\s*(?:<unit>)", s): start positions of a match
DecimalThenUnit(s, units) ==
    {i \in 1..Len(s) :
        /\ IsDigit(Char(s, i))
        /\ \E u \in units : StartsAt(s, SkipSpaces(s, DecimalEnd(s, i) + 1), u)}

ExtractExerciseValues(content) ==
    LET lower       == Lower(content)
        sets_match  == NumberThenUnit(lower, {"set", "x"})
        reps_match  == PrefixThenNumber(lower)
        reps_match2 == NumberThenUnit(lower, {"rep"})
        weight_match == DecimalThenUnit(lower, {"kg", "kilo"})
        lbs_match   == DecimalThenUnit(lower, {"lb", "pound"})
        sets == IF sets_match # {} THEN ParseInt(DigitsAt(lower, Min(sets_match))) ELSE 3
        reps == IF reps_match # {}
                THEN LET i == Min(reps_match)
                         p == IF StartsAt(lower, i, "x") THEN 1 ELSE 3
                     IN  ParseInt(DigitsAt(lower, SkipSpaces(lower, i + p)))
                ELSE IF reps_match2 # {}
                     THEN ParseInt(DigitsAt(lower, Min(reps_match2)))
                     ELSE 10
        weight == IF weight_match # {}
                  THEN LET i == Min(weight_match)
                       IN  ParseDecimal(SubSeq(lower, i, DecimalEnd(lower, i)))
                  ELSE IF lbs_match # {}
                       THEN LET i   == Min(lbs_match)
                                lbs == ParseDecimal(SubSeq(lower, i, DecimalEnd(lower, i)))
                            IN  (lbs \div KG) * LBS_TO_KG
                                  + (((lbs % KG) \div 1000) * LBS_TO_KG) \div 1000
                       ELSE 0
    IN  [sets |-> sets, reps |-> reps, weight |-> weight]

\* ---------------------------------------------------------------- state
VARIABLES
    user,           \* table user: user id -> profile row
    chat_message,   \* table chat_message, in created_at order
    meal_log,       \* table meal_log, in logged_at order
    exercise_log,   \* table exercise_log, in logged_at order
    sends,          \* POST /chat/messages requests in flight
    confirms,       \* POST /chat/messages/{id}/confirm requests in flight
    n_confirms,     \* confirm requests received so far
    n_day_updates,  \* PUT /me/day requests received so far
    last,           \* the response most recently returned to a client
    utcnow,         \* datetime.utcnow().date(), counted in days
    llm_call,       \* the call of the language-model provider under way
    demo_db         \* the rows that POST /demo/login reads and writes: tables
                    \* training_program, training_routine, user, meal_plan;
                    \* n_logins counts the requests received per persona

vars == <<user, chat_message, meal_log, exercise_log, sends, confirms,
          n_confirms, n_day_updates, last, utcnow, llm_call, demo_db>>

\* shared training programs and their routines (table training_routine)
TrainingRoutine == {
    [program_id |-> "p1", day_of_week |-> 0, exercise_name |-> "Bench Press",
     sets |-> 3, reps |-> 10, target_load_kg |-> 60 * KG],
    [program_id |-> "p1", day_of_week |-> 1, exercise_name |-> "Deadlift",
     sets |-> 5, reps |-> 5, target_load_kg |-> 100 * KG],
    [program_id |-> "p2", day_of_week |-> 0, exercise_name |-> "Leg Press",
     sets |-> 4, reps |-> 10, target_load_kg |-> 80 * KG],
    [program_id |-> "p2", day_of_week |-> 0, exercise_name |-> "Barbell Squat",
     sets |-> 5, reps |-> 5, target_load_kg |-> 100 * KG] }

\* per-user meal plans (table meal_plan)
MealPlan == {
    [user_id |-> "u1", day_of_week |-> 0, meal_type |-> "breakfast",
     item_name |-> "Oatmeal", calories |-> 300, protein_g |-> 120,
     carbs_g |-> 500, fat_g |-> 60],
    [user_id |-> "u1", day_of_week |-> 1, meal_type |-> "lunch",
     item_name |-> "Chicken Rice", calories |-> 600, protein_g |-> 450,
     carbs_g |-> 600, fat_g |-> 120],
    [user_id |-> "u2", day_of_week |-> 0, meal_type |-> "dinner",
     item_name |-> "Salmon Bowl", calories |-> 500, protein_g |-> 350,
     carbs_g |-> 400, fat_g |-> 200] }

\* the first limit rows (LIMIT)
Limit(rows, limit) == SubSeq(rows, 1, IF Len(rows) < limit THEN Len(rows) ELSE limit)

\* sum() over a list of numbers
RECURSIVE Sum(_)
Sum(nums) == IF nums = <<>> THEN 0 ELSE Head(nums) + Sum(Tail(nums))

\* a set of table rows as a sequence (row order of an unordered SELECT)
RECURSIVE SetToSeq(_)
SetToSeq(S) ==
    IF S = {} THEN <<>>
    ELSE LET x == CHOOSE y \in S : TRUE IN <<x>> \o SetToSeq(S \ {x})

\* ------------------------------------------------------------ data access
\* get_chat_messages without LIMIT
get_chat_messages_unlimited(user_id, limit) ==
    SelectSeq(chat_message, LAMBDA m : m.user_id = user_id)

get_chat_messages(user_id, limit) ==
    Limit(SelectSeq(chat_message, LAMBDA m : m.user_id = user_id), limit)

\* get_exercise_logs_for_simulated_day without the filter on user_id
get_exercise_logs_for_simulated_day_any_user(user_id, simulated_day) ==
    SelectSeq(exercise_log, LAMBDA l : l.simulated_day = simulated_day)

get_exercise_logs_for_simulated_day(user_id, simulated_day) ==
    SelectSeq(exercise_log,
              LAMBDA l : l.user_id = user_id /\ l.simulated_day = simulated_day)

get_meal_logs_for_simulated_day(user_id, simulated_day) ==
    SelectSeq(meal_log,
              LAMBDA l : l.user_id = user_id /\ l.simulated_day = simulated_day)

\* get_meal_plans_for_user without the filter on day_of_week
get_meal_plans_for_user_any_day(user_id, day_of_week) ==
    SetToSeq({mp \in MealPlan : mp.user_id = user_id})

get_meal_plans_for_user(user_id, day_of_week) ==
    SetToSeq({mp \in MealPlan :
                /\ mp.user_id = user_id
                /\ day_of_week # Null => mp.day_of_week = day_of_week})

get_training_routines_for_program(program_id, day_of_week) ==
    SetToSeq({r \in TrainingRoutine :
                /\ r.program_id = program_id
                /\ day_of_week # Null => r.day_of_week = day_of_week})

\* --------------------------------------------------------- calculations
\* int(a / b): the quotient truncated towards zero
TruncDiv(a, b) == IF a >= 0 THEN a \div b ELSE -((-a) \div b)

KCAL_PER_KG == 7700

\* multipliers in thousandths
ACTIVITY_MULTIPLIERS ==
    [sedentary |-> 1200, lightly_active |-> 1375, moderately_active |-> 1550,
     very_active |-> 1725, super_active |-> 1900]

\* weekly change in hundredths of a kilogram
GOAL_WEEKLY_CHANGE ==
    [maintenance |-> 0, very_slow_cut |-> -20, slow_cut |-> -25,
     standard_cut |-> -50, aggressive_cut |-> -75, very_aggressive_cut |-> -100,
     slow_gain |-> 25, moderate_gain |-> 50, custom |-> 0]

calculate_bmr_mifflin_st_jeor(weight_kg, height_cm, age, sex) ==
    LET base100 == 1000 * weight_kg + 625 * height_cm - 500 * age
    IN  IF Lower(sex) = "male" THEN TruncDiv(base100 + 500, 100)
        ELSE TruncDiv(base100 - 16100, 100)

\* estimated_daily_calories of the EnergyMetrics, or None
calculate_energy_metrics(u) ==
    IF u.weight_kg = Null \/ u.height_cm = Null \/ u.age = Null \/ u.sex = None
    THEN Nil
    ELSE LET bmr == calculate_bmr_mifflin_st_jeor(u.weight_kg, u.height_cm, u.age, u.sex)
             mult == IF u.activity_level = None THEN ACTIVITY_MULTIPLIERS.sedentary
                     ELSE ACTIVITY_MULTIPLIERS[u.activity_level]
             base_tdee == TruncDiv(bmr * mult, 1000)
             weekly == IF u.goal_method = None THEN 0 ELSE GOAL_WEEKLY_CHANGE[u.goal_method]
             daily_deficit == TruncDiv(weekly * (KCAL_PER_KG \div 100), 7)
             est == base_tdee + daily_deficit
         IN  [estimated_daily_calories |-> IF est > 0 THEN est ELSE 0]

\* ------------------------------------------------------- context builder
RECURSIVE HistoryLoop(_, _)
HistoryLoop(msgs, total_chars) ==
    IF msgs = <<>> THEN <<>>
    ELSE LET msg     == Head(msgs)
             content == IF msg.content = None THEN "" ELSE msg.content
         IN  IF total_chars + Len(content) > MAX_CHAT_HISTORY_CHARS THEN <<>>
             ELSE <<[role |-> msg.role, content |-> content]>>
                  \o HistoryLoop(Tail(msgs), total_chars + Len(content))

build_chat_history(user_id) ==
    HistoryLoop(get_chat_messages(user_id, MAX_CHAT_HISTORY), 0)

default_context(user_id) ==
    [user_id |-> user_id, goal_method |-> "maintenance", weight_kg |-> 70,
     height_cm |-> 170, activity_level |-> "moderately_active", sex |-> "unknown",
     calories_consumed |-> 0, calories_target |-> 2000,
     protein_consumed |-> 0, protein_target |-> 1500, workouts_completed |-> 0,
     scheduled_meals |-> <<>>, scheduled_exercises |-> <<>>,
     completed_exercises |-> <<>>, allowed_exercises |-> {},
     chat_history |-> <<>>, simulated_day |-> 0]

build_context(user_id) ==
    IF user_id \notin DOMAIN user THEN default_context(user_id)
    ELSE
    LET u             == user[user_id]
        simulated_day == u.simulated_day
        meal_logs     == get_meal_logs_for_simulated_day(user_id, simulated_day)
        exercise_logs == get_exercise_logs_for_simulated_day(user_id, simulated_day)
        meal_plans    == get_meal_plans_for_user(user_id, simulated_day)
        energy_metrics == calculate_energy_metrics(u)
        routines      == IF u.selected_program_id # None
                         THEN get_training_routines_for_program(u.selected_program_id,
                                                                simulated_day)
                         ELSE <<>>
        all_routines  == IF u.selected_program_id # None
                         THEN get_training_routines_for_program(u.selected_program_id, Null)
                         ELSE <<>>
    IN  [user_id |-> user_id,
         goal_method |-> IF u.goal_method # None THEN u.goal_method ELSE "maintenance",
         weight_kg |-> IF u.weight_kg # Null THEN u.weight_kg ELSE 70,
         height_cm |-> IF u.height_cm # Null THEN u.height_cm ELSE 170,
         activity_level |-> IF u.activity_level # None THEN u.activity_level
                            ELSE "moderately_active",
         sex |-> IF u.sex # None THEN u.sex ELSE "unknown",
         calories_consumed |-> Sum([i \in DOMAIN meal_logs |-> meal_logs[i].calories]),
         calories_target |->
             IF meal_plans # <<>>
             THEN Sum([i \in DOMAIN meal_plans |-> meal_plans[i].calories])
             ELSE IF energy_metrics # Nil THEN energy_metrics.estimated_daily_calories
                  ELSE 2000,
         protein_consumed |-> Sum([i \in DOMAIN meal_logs |-> meal_logs[i].protein_g]),
         protein_target |->
             IF meal_plans # <<>>
             THEN Sum([i \in DOMAIN meal_plans |-> meal_plans[i].protein_g])
             ELSE IF u.weight_kg # Null THEN u.protein_g_per_kg * u.weight_kg
                  ELSE 1500,
         workouts_completed |-> Len(exercise_logs),
         scheduled_meals |->
             [i \in DOMAIN meal_plans |->
                 [meal_type |-> meal_plans[i].meal_type,
                  item_name |-> meal_plans[i].item_name,
                  calories |-> meal_plans[i].calories,
                  protein_g |-> meal_plans[i].protein_g,
                  carbs_g |-> meal_plans[i].carbs_g,
                  fat_g |-> meal_plans[i].fat_g]],
         scheduled_exercises |->
             [i \in DOMAIN routines |->
                 [name |-> routines[i].exercise_name, sets |-> routines[i].sets,
                  reps |-> routines[i].reps,
                  target_weight |-> routines[i].target_load_kg]],
         completed_exercises |->
             [i \in DOMAIN exercise_logs |->
                 [name |-> exercise_logs[i].exercise_name,
                  sets |-> exercise_logs[i].sets, reps |-> exercise_logs[i].reps,
                  weight_kg |-> exercise_logs[i].weight_kg]],
         allowed_exercises |->
             {all_routines[i].exercise_name : i \in DOMAIN all_routines},
         chat_history |-> build_chat_history(user_id),
         simulated_day |-> simulated_day]

\* ---------------------------------------------------------------- Brain
\* Emoji of the reply texts are written "#".
BrainResponse(content, action_type, action_data) ==
    [raised |-> FALSE, content |-> content, action_type |-> action_type,
     action_data |-> action_data]

\* an exception that leaves the Brain
Raised == [raised |-> TRUE]

\* str() of a number kept in tenths
FormatTenths(p) ==
    IF p % 10 = 0 THEN ToString(p \div 10)
    ELSE ToString(p \div 10) \o "." \o ToString(p % 10)

\* str() of a float kept in millionths
RECURSIVE StripZeros(_)
StripZeros(digits) ==
    IF Len(digits) > 1 /\ Char(digits, Len(digits)) = "0"
    THEN StripZeros(SubSeq(digits, 1, Len(digits) - 1)) ELSE digits

RECURSIVE PadLeft(_, _)
PadLeft(digits, n) == IF Len(digits) >= n THEN digits ELSE PadLeft("0" \o digits, n)

FormatFloat(w) ==
    ToString(w \div KG) \o "." \o StripZeros(PadLeft(ToString(w % KG), 6))

has_food_keywords(content) ==
    LET lower == Lower(content)
    IN  \/ \E keyword \in FOOD_KEYWORDS : Contains(lower, keyword)
        \/ \E i \in DOMAIN FOOD_DB : Contains(lower, FOOD_DB[i].name)

has_exercise_keywords(content) ==
    LET lower == Lower(content)
    IN  \E keyword \in EXERCISE_KEYWORDS : Contains(lower, keyword)

\* the clause computed from the running total before this food is counted
build_food_progress_message_before_log(context, new_calories, new_protein) ==
    IF context = Nil THEN ""
    ELSE LET new_cal_total == context.calories_consumed
             cal_pct == IF context.calories_target > 0
                        THEN (new_cal_total * 100) \div context.calories_target
                        ELSE 0
             cal_remaining == context.calories_target - new_cal_total
         IN  IF cal_remaining > 0
             THEN "\n\n# You're at " \o ToString(cal_pct)
                  \o "% of your calorie target (" \o ToString(cal_remaining)
                  \o " kcal remaining)"
             ELSE "\n\n# You've reached " \o ToString(cal_pct)
                  \o "% of your calorie target"

build_food_progress_message(context, new_calories, new_protein) ==
    IF context = Nil THEN ""
    ELSE LET new_cal_total == context.calories_consumed + new_calories
             cal_pct == IF context.calories_target > 0
                        THEN (new_cal_total * 100) \div context.calories_target
                        ELSE 0
             cal_remaining == context.calories_target - new_cal_total
         IN  IF cal_remaining > 0
             THEN "\n\n# You're at " \o ToString(cal_pct)
                  \o "% of your calorie target (" \o ToString(cal_remaining)
                  \o " kcal remaining)"
             ELSE "\n\n# You've reached " \o ToString(cal_pct)
                  \o "% of your calorie target"

\* str.title() of the food names of FOOD_DB
Title(name) ==
    CASE name = "banana" -> "Banana" [] name = "chicken" -> "Chicken"
      [] name = "rice" -> "Rice" [] name = "eggs" -> "Eggs"
      [] name = "oats" -> "Oats" [] name = "salmon" -> "Salmon"
      [] name = "broccoli" -> "Broccoli" [] name = "apple" -> "Apple"
      [] name = "bread" -> "Bread" [] name = "milk" -> "Milk"
      [] name = "shake" -> "Shake" [] name = "protein shake" -> "Protein Shake"
      [] name = "oatmeal" -> "Oatmeal" [] name = "chicken salad" -> "Chicken Salad"
      [] name = "avocado toast" -> "Avocado Toast"
      [] name = "grilled chicken salad" -> "Grilled Chicken Salad"
      [] name = "oatmeal with berries" -> "Oatmeal With Berries"
      [] name = "eggs and avocado toast" -> "Eggs And Avocado Toast"
      [] name = "rice and grilled chicken" -> "Rice And Grilled Chicken"
      [] name = "rice and chicken" -> "Rice And Chicken"

\* the Brain's context: None without a session or a user id
brain_context(user_id) == IF user_id = None THEN Nil ELSE build_context(user_id)

\* sorted(FOOD_DB.keys(), key=len, reverse=True), as indices into FOOD_DB
sorted_foods == LongestFirst([i \in DOMAIN FOOD_DB |-> FOOD_DB[i].name])

\* parse_food scanning the names shortest first (sorted without reverse=True)
parse_food_shortest_first(content, user_id) ==
    LET lower == Lower(content)
        hits  == {k \in DOMAIN sorted_foods :
                     Contains(lower, FOOD_DB[sorted_foods[k]].name)}
    IN  IF hits = {} THEN Nil
        ELSE LET food   == FOOD_DB[sorted_foods[CHOOSE k \in hits : \A h \in hits : h <= k]]
                 macros == food.macros
                 progress_msg == build_food_progress_message(
                                     brain_context(user_id), macros.calories, macros.protein)
             IN  BrainResponse(
                     "# Logged " \o food.name \o ": " \o ToString(macros.calories)
                       \o " kcal, " \o FormatTenths(macros.protein) \o "g protein"
                       \o progress_msg,
                     "log_food",
                     [food |-> food.name, meal_name |-> Title(food.name),
                      meal_type |-> "snack", calories |-> macros.calories,
                      protein_g |-> macros.protein, carbs_g |-> macros.carbs,
                      fat_g |-> macros.fat])

parse_food(content, user_id) ==
    LET lower == Lower(content)
        hits  == {k \in DOMAIN sorted_foods :
                     Contains(lower, FOOD_DB[sorted_foods[k]].name)}
    IN  IF hits = {} THEN Nil
        ELSE LET food   == FOOD_DB[sorted_foods[Min(hits)]]
                 macros == food.macros
                 progress_msg == build_food_progress_message(
                                     brain_context(user_id), macros.calories, macros.protein)
             IN  BrainResponse(
                     "# Logged " \o food.name \o ": " \o ToString(macros.calories)
                       \o " kcal, " \o FormatTenths(macros.protein) \o "g protein"
                       \o progress_msg,
                     "log_food",
                     [food |-> food.name, meal_name |-> Title(food.name),
                      meal_type |-> "snack", calories |-> macros.calories,
                      protein_g |-> macros.protein, carbs_g |-> macros.carbs,
                      fat_g |-> macros.fat])

build_exercise_progress_message(context, exercise_name) ==
    IF context = Nil THEN ""
    ELSE LET in_plan == \E i \in DOMAIN context.scheduled_exercises :
                            Lower(context.scheduled_exercises[i].name) = Lower(exercise_name)
             total_scheduled == Len(context.scheduled_exercises)
             completed == context.workouts_completed + 1
             remaining == total_scheduled - completed
         IN  IF in_plan /\ total_scheduled > 0
             THEN IF remaining > 0
                  THEN "\n\n# Part of today's plan! " \o ToString(remaining)
                       \o " exercises remaining"
                  ELSE "\n\n# Part of today's plan! Great job completing your workout!"
             ELSE IF context.scheduled_exercises # <<>>
                  THEN "\n\n# Extra work! Today's plan has " \o ToString(total_scheduled)
                       \o " scheduled exercises"
                  ELSE ""

exercise_reply(exercise_name, sets, reps, weight, user_id) ==
    BrainResponse(
        "# Logged " \o exercise_name \o ": " \o ToString(sets) \o "x" \o ToString(reps)
          \o (IF weight > 0 THEN " @ " \o FormatFloat(weight) \o "kg" ELSE "")
          \o build_exercise_progress_message(brain_context(user_id), exercise_name),
        "log_exercise",
        [exercise_name |-> exercise_name, sets |-> sets, reps |-> reps,
         weight_kg |-> weight])

\* ", ".join(names)
RECURSIVE JoinNames(_)
JoinNames(names) ==
    IF names = << >> THEN ""
    ELSE IF Len(names) = 1 THEN names[1]
    ELSE names[1] \o ", " \o JoinNames(Tail(names))

\* sorted(EXERCISE_MAP.keys(), key=len, reverse=True), as indices into
\* EXERCISE_MAP
sorted_keywords == LongestFirst([i \in DOMAIN EXERCISE_MAP |-> EXERCISE_MAP[i].keyword])

\* parse_exercise logging only what the plan of the day holds, as the
\* generative path does
parse_exercise_scheduled_only(content, user_id) ==
    LET lower == Lower(content)
        hits  == {k \in DOMAIN sorted_keywords :
                     Contains(lower, EXERCISE_MAP[sorted_keywords[k]].keyword)}
    IN  IF hits = {} THEN Nil
        ELSE LET exercise_name == EXERCISE_MAP[sorted_keywords[Min(hits)]].exercise
                 v == ExtractExerciseValues(content)
                 context == brain_context(user_id)
             IN  IF context # Nil
                    /\ ~\E i \in DOMAIN context.scheduled_exercises :
                           context.scheduled_exercises[i].name = exercise_name
                 THEN Nil
                 ELSE exercise_reply(exercise_name, v.sets, v.reps, v.weight, user_id)

parse_exercise(content, user_id) ==
    LET lower == Lower(content)
        hits  == {k \in DOMAIN sorted_keywords :
                     Contains(lower, EXERCISE_MAP[sorted_keywords[k]].keyword)}
    IN  IF hits = {} THEN Nil
        ELSE LET exercise_name == EXERCISE_MAP[sorted_keywords[Min(hits)]].exercise
                 v == ExtractExerciseValues(content)
             IN  exercise_reply(exercise_name, v.sets, v.reps, v.weight, user_id)

\* Outcomes of the collaborators during one request (env):
\*   llm        get_llm_provider() returned a provider
\*   extract    llm.generate() for exercise extraction: Nil, or what the
\*              reply holds: [kind |-> "nojson"], [kind |-> "badjson"],
\*              [kind |-> "json", data |-> the parsed object]
\*   chat       llm.generate() for general conversation: None or a text
\*   classify   llm.analyze_image() for classification: None or a text
\*   image_json llm.extract_json_from_image(): a list of parsed objects

\* parse_exercise_with_llm answering with the keyword matcher alone, which
\* does not look at the plan of the day
parse_exercise_with_llm_keywords(content, user_id, env) == parse_exercise(content, user_id)

parse_exercise_with_llm(content, user_id, env) ==
    IF ~env.llm THEN parse_exercise(content, user_id)
    ELSE
    LET context == brain_context(user_id)
        scheduled_exercises == IF context # Nil THEN context.scheduled_exercises ELSE <<>>
        scheduled_names == [i \in DOMAIN scheduled_exercises |-> scheduled_exercises[i].name]
        response == env.extract
    IN  IF response = Nil THEN parse_exercise(content, user_id)
        ELSE IF response.kind = "nojson" THEN parse_exercise(content, user_id)
        ELSE IF response.kind = "badjson" THEN parse_exercise(content, user_id)
        ELSE
        LET data == response.data
            exercise_name == Get(data, "exercise_name", None)
            sets   == Get(data, "sets", 1)
            reps   == Get(data, "reps", 10)
            weight == Get(data, "weight_kg", 0)
        IN  IF exercise_name = None \/ exercise_name = "" THEN Nil
            \* int(None) and float(None) raise TypeError, caught below
            ELSE IF sets = Null \/ reps = Null \/ weight = Null
                 THEN parse_exercise(content, user_id)
            ELSE IF ~\E i \in DOMAIN scheduled_names :
                        Lower(scheduled_names[i]) = Lower(exercise_name)
                 THEN IF scheduled_names # <<>>
                      THEN BrainResponse(
                               "# " \o exercise_name
                                 \o " is not in today's workout plan.\n\nToday's exercises: "
                                 \o JoinNames(scheduled_names),
                               "none", Nil)
                      ELSE BrainResponse(
                               "# Today is a rest day - no exercises scheduled!",
                               "none", Nil)
            ELSE exercise_reply(exercise_name, sets, reps, weight, user_id)

handle_reset ==
    BrainResponse(
        "# Reset complete! All of today's food and exercise logs have been cleared.",
        "reset", Nil)

handle_audio_attachment ==
    BrainResponse(
        "I heard your voice note! For now, type what you said and I'll log it.",
        "none", Nil)

general_response ==
    BrainResponse(
        "I can help you log food and exercises! Try:\n"
          \o "- 'I ate a banana' - to log food\n"
          \o "- 'Did 3 sets of bench at 60kg' - to log exercise\n"
          \o "- 'reset' - to clear today's logs",
        "none", Nil)

llm_response(content, user_id, env) ==
    IF ~env.llm THEN general_response
    ELSE IF env.chat # None /\ env.chat # ""
         THEN BrainResponse(env.chat, "none", Nil)
         ELSE general_response

\* ---------------------------------------------------------------- Vision
VisionResult(category, gym_analysis, food_analysis, error_message) ==
    [category |-> category, gym_analysis |-> gym_analysis,
     food_analysis |-> food_analysis, error_message |-> error_message]

classify_image(image_url, image_base64, env) ==
    LET result == IF image_url = None /\ image_base64 = None THEN None ELSE env.classify
    IN  IF result = None \/ result = "" THEN "unknown"
        ELSE IF Contains(Lower(result), "gym") \/ Contains(Lower(result), "equipment")
             THEN "gym_equipment"
        ELSE IF Contains(Lower(result), "food") THEN "food"
        ELSE "unknown"

extract_json_from_image(image_url, image_base64, env) ==
    IF image_url = None /\ image_base64 = None THEN <<>> ELSE env.image_json

analyze_gym_equipment(image_url, image_base64, env) ==
    LET result == extract_json_from_image(image_url, image_base64, env)
    IN  IF result # <<>>
        THEN LET data == result[1]
             IN  [exercise_name |-> Get(data, "exercise_name", "Unknown Exercise"),
                  form_cues |-> Get(data, "form_cues",
                                    <<"Maintain proper form", "Control the movement">>),
                  suggested_sets |-> Get(data, "suggested_sets", 3),
                  suggested_reps |-> Get(data, "suggested_reps", 10),
                  suggested_weight_kg |-> Get(data, "suggested_weight_kg", 0),
                  in_todays_plan |-> Get(data, "in_todays_plan", FALSE),
                  goal_specific_advice |-> Get(data, "goal_specific_advice", "")]
        ELSE [exercise_name |-> "Unknown Exercise",
              form_cues |-> <<"Maintain proper form", "Control the movement">>,
              suggested_sets |-> 3, suggested_reps |-> 10, suggested_weight_kg |-> 0,
              in_todays_plan |-> FALSE, goal_specific_advice |-> ""]

analyze_food(image_url, image_base64, env) ==
    LET result == extract_json_from_image(image_url, image_base64, env)
    IN  IF result # <<>>
        THEN LET data == result[1]
             IN  [meal_name |-> Get(data, "meal_name", "Unknown Meal"),
                  calories |-> Get(data, "calories", 300),
                  protein_g |-> Get(data, "protein_g", 150),
                  carbs_g |-> Get(data, "carbs_g", 300),
                  fat_g |-> Get(data, "fat_g", 100),
                  goal_specific_advice |-> Get(data, "goal_specific_advice", "")]
        ELSE [meal_name |-> "Unknown Meal", calories |-> 300, protein_g |-> 150,
              carbs_g |-> 300, fat_g |-> 100, goal_specific_advice |-> ""]

analyze_image(image_url, image_base64, env) ==
    IF ~env.llm
    THEN VisionResult("unknown", Nil, Nil,
             "I can see you sent an image! For now, please describe "
               \o "what you're showing me and I'll help log it.")
    ELSE LET category == classify_image(image_url, image_base64, env)
         IN  IF category = "gym_equipment"
             THEN VisionResult(category,
                      analyze_gym_equipment(image_url, image_base64, env), Nil, None)
             ELSE IF category = "food"
             THEN VisionResult(category, Nil,
                      analyze_food(image_url, image_base64, env), None)
             ELSE VisionResult("unknown", Nil, Nil,
                      "I'm not sure what this image shows. Could you describe it? "
                        \o "I can help log food or exercises.")

\* str() of a value of an analysis: a number or None
Str(v) == IF v = Null THEN "None" ELSE ToString(v)

\* str() of a float-or-None value held in tenths
StrTenths(v) == IF v = Null THEN "None" ELSE FormatTenths(v)

\* handle_image_attachment answering with LOG_* instead of PROPOSE_*
handle_image_attachment_logs(user_id, image_base64, image_url, env) ==
    LET result == analyze_image(image_url, image_base64, env)
    IN  IF result.error_message # None
        THEN BrainResponse(result.error_message, "none", Nil)
        ELSE IF result.category = "gym_equipment" /\ result.gym_analysis # Nil
        THEN LET ga == result.gym_analysis
             IN  \* None > 0 raises TypeError
                 IF ga.suggested_weight_kg = Null THEN Raised
                 ELSE BrainResponse(
                     "# " \o ga.exercise_name
                       \o (IF ga.in_todays_plan THEN " (from today's plan)" ELSE "")
                       \o "\n\n# Suggested: " \o Str(ga.suggested_sets) \o "x"
                       \o Str(ga.suggested_reps)
                       \o (IF ga.suggested_weight_kg > 0
                           THEN " @ " \o FormatFloat(ga.suggested_weight_kg) \o "kg" ELSE "")
                       \o (IF ga.goal_specific_advice # ""
                           THEN "\n\n# " \o ga.goal_specific_advice ELSE "")
                       \o "\n\nClick 'Add to Track' to log this exercise.",
                     "log_exercise",
                     [isTracked |-> FALSE, exercise_name |-> ga.exercise_name,
                      sets |-> ga.suggested_sets, reps |-> ga.suggested_reps,
                      weight_kg |-> ga.suggested_weight_kg,
                      hiddenContext |-> [formCues |-> ga.form_cues]])
        ELSE IF result.category = "food" /\ result.food_analysis # Nil
        THEN LET fa == result.food_analysis
             IN  BrainResponse(
                     "# " \o fa.meal_name \o "\n\n# " \o Str(fa.calories) \o " kcal | "
                       \o StrTenths(fa.protein_g) \o "g protein | "
                       \o StrTenths(fa.carbs_g) \o "g carbs | "
                       \o StrTenths(fa.fat_g) \o "g fat"
                       \o (IF fa.goal_specific_advice # ""
                           THEN "\n\n# " \o fa.goal_specific_advice ELSE "")
                       \o "\n\nClick 'Add to Track' to log this meal.",
                     "log_food",
                     [isTracked |-> FALSE, meal_name |-> fa.meal_name,
                      meal_type |-> "snack", calories |-> fa.calories,
                      protein_g |-> fa.protein_g, carbs_g |-> fa.carbs_g,
                      fat_g |-> fa.fat_g])
        ELSE BrainResponse(
                 "I couldn't analyze this image. Please describe what you're showing me.",
                 "none", Nil)

handle_image_attachment(user_id, image_base64, image_url, env) ==
    LET result == analyze_image(image_url, image_base64, env)
    IN  IF result.error_message # None
        THEN BrainResponse(result.error_message, "none", Nil)
        ELSE IF result.category = "gym_equipment" /\ result.gym_analysis # Nil
        THEN LET ga == result.gym_analysis
             IN  \* None > 0 raises TypeError
                 IF ga.suggested_weight_kg = Null THEN Raised
                 ELSE BrainResponse(
                     "# " \o ga.exercise_name
                       \o (IF ga.in_todays_plan THEN " (from today's plan)" ELSE "")
                       \o "\n\n# Suggested: " \o Str(ga.suggested_sets) \o "x"
                       \o Str(ga.suggested_reps)
                       \o (IF ga.suggested_weight_kg > 0
                           THEN " @ " \o FormatFloat(ga.suggested_weight_kg) \o "kg" ELSE "")
                       \o (IF ga.goal_specific_advice # ""
                           THEN "\n\n# " \o ga.goal_specific_advice ELSE "")
                       \o "\n\nClick 'Add to Track' to log this exercise.",
                     "propose_exercise",
                     [isTracked |-> FALSE, exercise_name |-> ga.exercise_name,
                      sets |-> ga.suggested_sets, reps |-> ga.suggested_reps,
                      weight_kg |-> ga.suggested_weight_kg,
                      hiddenContext |-> [formCues |-> ga.form_cues]])
        ELSE IF result.category = "food" /\ result.food_analysis # Nil
        THEN LET fa == result.food_analysis
             IN  BrainResponse(
                     "# " \o fa.meal_name \o "\n\n# " \o Str(fa.calories) \o " kcal | "
                       \o StrTenths(fa.protein_g) \o "g protein | "
                       \o StrTenths(fa.carbs_g) \o "g carbs | "
                       \o StrTenths(fa.fat_g) \o "g fat"
                       \o (IF fa.goal_specific_advice # ""
                           THEN "\n\n# " \o fa.goal_specific_advice ELSE "")
                       \o "\n\nClick 'Add to Track' to log this meal.",
                     "propose_food",
                     [isTracked |-> FALSE, meal_name |-> fa.meal_name,
                      meal_type |-> "snack", calories |-> fa.calories,
                      protein_g |-> fa.protein_g, carbs_g |-> fa.carbs_g,
                      fat_g |-> fa.fat_g])
        ELSE BrainResponse(
                 "I couldn't analyze this image. Please describe what you're showing me.",
                 "none", Nil)

\* ------------------------------------------------------ message routing
\* process_message_async with food parsing tried before the reset command
process_message_async_food_first(content, attachment_type, user_id, image_base64, image_url, env) ==
    IF attachment_type = "audio" THEN handle_audio_attachment
    ELSE IF attachment_type = "image"
    THEN handle_image_attachment(user_id, image_base64, image_url, env)
    ELSE
    LET food_response == IF has_food_keywords(content)
                         THEN parse_food(content, user_id) ELSE Nil
    IN  IF food_response # Nil THEN food_response
        ELSE IF Contains(Lower(content), "reset") THEN handle_reset
        ELSE
        LET exercise_response == IF has_exercise_keywords(content)
                                 THEN parse_exercise_with_llm(content, user_id, env)
                                 ELSE Nil
        IN  IF exercise_response # Nil THEN exercise_response
            ELSE llm_response(content, user_id, env)

\* process_message_async trying the exercise extraction on every message
\* that is not a food log, exercise keyword or not
process_message_async_no_exercise_gate(content, attachment_type, user_id, image_base64, image_url, env) ==
    IF attachment_type = "audio" THEN handle_audio_attachment
    ELSE IF attachment_type = "image"
    THEN handle_image_attachment(user_id, image_base64, image_url, env)
    ELSE IF Contains(Lower(content), "reset") THEN handle_reset
    ELSE
    LET food_response == IF has_food_keywords(content)
                         THEN parse_food(content, user_id) ELSE Nil
    IN  IF food_response # Nil THEN food_response
        ELSE
        LET exercise_response == parse_exercise_with_llm(content, user_id, env)
        IN  IF exercise_response # Nil THEN exercise_response
            ELSE llm_response(content, user_id, env)

process_message_async(content, attachment_type, user_id, image_base64, image_url, env) ==
    IF attachment_type = "audio" THEN handle_audio_attachment
    ELSE IF attachment_type = "image"
    THEN handle_image_attachment(user_id, image_base64, image_url, env)
    ELSE IF Contains(Lower(content), "reset") THEN handle_reset
    ELSE
    LET food_response == IF has_food_keywords(content)
                         THEN parse_food(content, user_id) ELSE Nil
    IN  IF food_response # Nil THEN food_response
        ELSE
        LET exercise_response == IF has_exercise_keywords(content)
                                 THEN parse_exercise_with_llm(content, user_id, env)
                                 ELSE Nil
        IN  IF exercise_response # Nil THEN exercise_response
            ELSE llm_response(content, user_id, env)

process_message(content, attachment_type, user_id) ==
    IF attachment_type = "audio" THEN handle_audio_attachment
    ELSE IF attachment_type = "image"
    THEN BrainResponse("Processing image... Please use the async endpoint.", "none", Nil)
    ELSE IF Contains(Lower(content), "reset") THEN handle_reset
    ELSE
    LET food_response == IF has_food_keywords(content)
                         THEN parse_food(content, user_id) ELSE Nil
    IN  IF food_response # Nil THEN food_response
        ELSE
        LET exercise_response == IF has_exercise_keywords(content)
                                 THEN parse_exercise(content, user_id) ELSE Nil
        IN  IF exercise_response # Nil THEN exercise_response
            ELSE general_response

\* ------------------------------------------------------------- requests
\* stored images (table chat_attachment), by id
ChatAttachment == [a \in {"11111111-1111-1111-1111-111111111111"} |-> "/9j/4AAQSkZJRg"]

\* uuid.UUID(text) succeeds
IsUUID(text) ==
    text \in {"11111111-1111-1111-1111-111111111111",
              "22222222-2222-2222-2222-222222222222"}

\* bodies of POST /chat/messages
SendInputs == {
    [content |-> "I ate a banana", attachment_type |-> "none", attachment_url |-> None],
    [content |-> "Reset, I ate a banana", attachment_type |-> "none",
     attachment_url |-> None],
    [content |-> "bench press 3x10 60kg", attachment_type |-> "none",
     attachment_url |-> None],
    [content |-> "ate rice after bench press", attachment_type |-> "none",
     attachment_url |-> None],
    [content |-> "hello", attachment_type |-> "none", attachment_url |-> None],
    [content |-> "data:image/jpeg;base64,/9j/4AAQ", attachment_type |-> "none",
     attachment_url |-> None],
    [content |-> "Image attached", attachment_type |-> "image",
     attachment_url |-> "11111111-1111-1111-1111-111111111111"],
    [content |-> "reset banana", attachment_type |-> "image",
     attachment_url |-> "https://demo/images/leg-press.jpg"],
    [content |-> "reset banana", attachment_type |-> "audio", attachment_url |-> None] }

GymJson == [exercise_name |-> "Leg Press", suggested_sets |-> 4, suggested_reps |-> 10,
            suggested_weight_kg |-> 80 * KG, in_todays_plan |-> TRUE]
FoodJson == [meal_name |-> "Salmon Bowl", calories |-> 520, protein_g |-> 350,
             carbs_g |-> 400, fat_g |-> 200]

\* collaborator outcomes of one request
Envs == {
    [llm |-> FALSE, extract |-> Nil, chat |-> None, classify |-> None,
     image_json |-> << >>],
    [llm |-> TRUE, extract |-> Nil, chat |-> None, classify |-> None,
     image_json |-> << >>],
    [llm |-> TRUE,
     extract |-> [kind |-> "json",
                  data |-> [exercise_name |-> "Bench Press", sets |-> 3, reps |-> 10,
                            weight_kg |-> 60 * KG]],
     chat |-> "Keep it up!", classify |-> "gym_equipment", image_json |-> <<GymJson>>],
    [llm |-> TRUE,
     extract |-> [kind |-> "json", data |-> [exercise_name |-> None]],
     chat |-> "Keep it up!", classify |-> "gym_equipment",
     image_json |-> <<[GymJson EXCEPT !.suggested_sets = Null]>>],
    [llm |-> TRUE,
     extract |-> [kind |-> "json",
                  data |-> [exercise_name |-> "Deadlift", sets |-> 5, reps |-> 5,
                            weight_kg |-> 100 * KG]],
     chat |-> None, classify |-> "This is food.", image_json |-> <<FoodJson>>],
    [llm |-> TRUE, extract |-> [kind |-> "badjson"], chat |-> "Keep it up!",
     classify |-> "food", image_json |-> << >>],
    [llm |-> TRUE, extract |-> [kind |-> "nojson"], chat |-> None,
     classify |-> "gym_equipment",
     image_json |-> <<[GymJson EXCEPT !.suggested_weight_kg = Null]>>],
    [llm |-> TRUE, extract |-> Nil, chat |-> None, classify |-> "unknown",
     image_json |-> << >>] }

\* MealLogCreate(...) / ExerciseLogCreate(...) pass validation
ValidMealLogCreate(d) ==
    /\ Get(d, "meal_name", "Unknown") # None
    /\ \A k \in {"calories", "protein_g", "carbs_g", "fat_g"} :
           Get(d, k, 0) # Null /\ Get(d, k, 0) >= 0

ValidExerciseLogCreate(d) ==
    /\ Get(d, "exercise_name", "Unknown") # None
    /\ \A k \in {"sets", "reps", "weight_kg"} : Get(d, k, 0) # Null /\ Get(d, k, 0) >= 0

\* MealLogCreate with the macros declared int: the grams lose their decimals
MealLogCreate_whole_grams(d) ==
    [meal_name |-> Get(d, "meal_name", "Unknown"),
     meal_type |-> Get(d, "meal_type", "snack"),
     calories |-> Get(d, "calories", 0), protein_g |-> (Get(d, "protein_g", 0) \div 10) * 10,
     carbs_g |-> (Get(d, "carbs_g", 0) \div 10) * 10, fat_g |-> (Get(d, "fat_g", 0) \div 10) * 10]

MealLogCreate(d) ==
    [meal_name |-> Get(d, "meal_name", "Unknown"),
     meal_type |-> Get(d, "meal_type", "snack"),
     calories |-> Get(d, "calories", 0), protein_g |-> Get(d, "protein_g", 0),
     carbs_g |-> Get(d, "carbs_g", 0), fat_g |-> Get(d, "fat_g", 0)]

ExerciseLogCreate(d) ==
    [exercise_name |-> Get(d, "exercise_name", "Unknown"),
     sets |-> Get(d, "sets", 0), reps |-> Get(d, "reps", 0),
     weight_kg |-> Get(d, "weight_kg", 0)]

\* create_exercise_log leaving simulated_day at the default of the column
create_exercise_log_default_day(user_id, exercise_log_in, simulated_day) ==
    [user_id |-> user_id, exercise_name |-> exercise_log_in.exercise_name,
     sets |-> exercise_log_in.sets, reps |-> exercise_log_in.reps,
     weight_kg |-> exercise_log_in.weight_kg, simulated_day |-> 0,
     logged_at |-> utcnow]

\* the row that create_meal_log / create_exercise_log inserts
create_meal_log(user_id, meal_log_in, simulated_day) ==
    [user_id |-> user_id, meal_name |-> meal_log_in.meal_name,
     meal_type |-> meal_log_in.meal_type, calories |-> meal_log_in.calories,
     protein_g |-> meal_log_in.protein_g, carbs_g |-> meal_log_in.carbs_g,
     fat_g |-> meal_log_in.fat_g, simulated_day |-> simulated_day,
     logged_at |-> utcnow]

create_exercise_log(user_id, exercise_log_in, simulated_day) ==
    [user_id |-> user_id, exercise_name |-> exercise_log_in.exercise_name,
     sets |-> exercise_log_in.sets, reps |-> exercise_log_in.reps,
     weight_kg |-> exercise_log_in.weight_kg, simulated_day |-> simulated_day,
     logged_at |-> utcnow]

\* the table after DELETE ... WHERE user_id = ... AND simulated_day = ...
delete_meal_logs_for_simulated_day(user_id, simulated_day) ==
    SelectSeq(meal_log,
              LAMBDA l : ~(l.user_id = user_id /\ l.simulated_day = simulated_day))

\* delete_exercise_logs_for_simulated_day selecting by the UTC date, as the
\* deprecated delete_exercise_logs_for_today does
delete_exercise_logs_by_date(user_id, simulated_day) ==
    SelectSeq(exercise_log,
              LAMBDA l : ~(l.user_id = user_id /\ l.logged_at = utcnow))

\* delete_exercise_logs_for_simulated_day without the filter on the day
delete_exercise_logs_of_user(user_id, simulated_day) ==
    SelectSeq(exercise_log, LAMBDA l : ~(l.user_id = user_id))

delete_exercise_logs_for_simulated_day(user_id, simulated_day) ==
    SelectSeq(exercise_log,
              LAMBDA l : ~(l.user_id = user_id /\ l.simulated_day = simulated_day))

\* the row that create_chat_message inserts; ids are handed out in order
create_chat_message(user_id, content, role, action_type, action_data, attachment_type, attachment_url) ==
    [id |-> Len(chat_message) + 1, user_id |-> user_id, role |-> role,
     content |-> content, action_type |-> action_type, action_data |-> action_data,
     attachment_type |-> attachment_type, attachment_url |-> attachment_url]

\* -------------------------------------------------------------- actions
Init ==
    /\ user = [u \in Users |->
                 IF u = "u1"
                 THEN [simulated_day |-> 0, selected_program_id |-> "p1",
                       weight_kg |-> 85, height_cm |-> 180, age |-> 30, sex |-> "male",
                       goal_method |-> "standard_cut", activity_level |-> "very_active",
                       protein_g_per_kg |-> 20]
                 ELSE [simulated_day |-> 0, selected_program_id |-> "p2",
                       weight_kg |-> Null, height_cm |-> Null, age |-> Null, sex |-> None,
                       goal_method |-> None, activity_level |-> None,
                       protein_g_per_kg |-> 20]]
    /\ chat_message = << >>
    /\ meal_log = << >>
    /\ exercise_log = << >>
    /\ sends = {}
    /\ confirms = {}
    /\ n_confirms = 0
    /\ n_day_updates = 0
    /\ last = [op |-> "none"]
    /\ utcnow = 0
    /\ llm_call = [pc |-> "idle"]
    /\ demo_db = [training_program |-> << >>, training_routine |-> << >>,
                  user |-> << >>, meal_plan |-> << >>,
                  n_logins |-> [persona \in {"cut", "bulk", "maintain", "unknown"} |-> 0]]

\* send_message up to the call of the Brain: the user message is saved and
\* the image of the attachment is looked up
SendBegin(u, message_in, max_msgs) ==
    /\ Len(chat_message) + Cardinality(sends) + 2 <= max_msgs
    /\ LET attachment_type == message_in.attachment_type
           url == message_in.attachment_url
           image == attachment_type = "image" /\ url # None /\ url # ""
       IN  /\ chat_message' = Append(chat_message,
                  create_chat_message(u, message_in.content, "user", "none", Nil,
                                      attachment_type, url))
           /\ sends' = sends \cup
                  {[id |-> Len(chat_message) + 1, user_id |-> u,
                    content |-> message_in.content,
                    attachment_type |-> attachment_type,
                    image_base64 |-> IF image /\ IsUUID(url) /\ url \in DOMAIN ChatAttachment
                                     THEN ChatAttachment[url] ELSE None,
                    image_url |-> IF image /\ ~IsUUID(url) THEN url ELSE None]}
    /\ UNCHANGED <<utcnow, llm_call, demo_db>>
    /\ UNCHANGED <<user, meal_log, exercise_log, confirms, n_confirms, n_day_updates,
                   last>>

\* send_message from the call of the Brain on: the logs of the action are
\* created and the assistant message is saved
SendFinish(r, env) ==
    /\ r \in sends
    /\ sends' = sends \ {r}
    /\ \E brain_response \in {process_message_async(r.content, r.attachment_type,
                                  r.user_id, r.image_base64, r.image_url, env)} :
       LET simulated_day == user[r.user_id].simulated_day
           action == IF brain_response.raised THEN "raised" ELSE brain_response.action_type
           data   == IF brain_response.raised THEN Nil ELSE brain_response.action_data
           log_food     == action = "log_food" /\ Truthy(data)
           log_exercise == ~log_food /\ action = "log_exercise" /\ Truthy(data)
           reset        == ~log_food /\ ~log_exercise /\ action = "reset"
           invalid == \/ log_food /\ ~ValidMealLogCreate(data)
                      \/ log_exercise /\ ~ValidExerciseLogCreate(data)
       IN  IF brain_response.raised \/ invalid
           THEN /\ last' = [op |-> "send", request |-> r, status |-> 500]
                /\ UNCHANGED <<chat_message, meal_log, exercise_log>>
           ELSE /\ meal_log' =
                       IF log_food
                       THEN Append(meal_log, create_meal_log(r.user_id,
                                       MealLogCreate(data), simulated_day))
                       ELSE IF reset
                       THEN delete_meal_logs_for_simulated_day(r.user_id, simulated_day)
                       ELSE meal_log
                /\ exercise_log' =
                       IF log_exercise
                       THEN Append(exercise_log, create_exercise_log(r.user_id,
                                       ExerciseLogCreate(data), simulated_day))
                       ELSE IF reset
                       THEN delete_exercise_logs_for_simulated_day(r.user_id,
                                                                   simulated_day)
                       ELSE exercise_log
                /\ chat_message' = Append(chat_message,
                       create_chat_message(r.user_id, brain_response.content, "assistant",
                                           action, data, "none", None))
                /\ last' = [op |-> "send", request |-> r, status |-> 200,
                            id |-> Len(chat_message) + 1,
                            content |-> brain_response.content,
                            action_type |-> action, action_data |-> data]
    /\ UNCHANGED <<utcnow, llm_call, demo_db>>
    /\ UNCHANGED <<user, confirms, n_confirms, n_day_updates>>

\* ConfirmBegin without the check of isTracked
ConfirmBegin_no_tracked_check(u, message_id) ==
    /\ n_confirms < MaxConfirms
    /\ n_confirms' = n_confirms + 1
    /\ LET found   == message_id \in DOMAIN chat_message
           message == chat_message[message_id]
           reject(status, detail) ==
               /\ last' = [op |-> "confirm", user_id |-> u, message_id |-> message_id,
                           status |-> status, detail |-> detail]
               /\ UNCHANGED confirms
       IN  IF message_id = 0 THEN reject(400, "Invalid message ID format")
           ELSE IF ~found THEN reject(404, "Message not found")
           ELSE IF message.user_id # u THEN reject(404, "Message not found")
           ELSE IF message.action_type \notin {"propose_food", "propose_exercise"}
                THEN reject(400, "Message is not a trackable vision analysis")
           ELSE /\ confirms' = confirms \cup
                       {[rid |-> n_confirms + 1, user_id |-> u, message_id |-> message_id,
                         action_type |-> message.action_type,
                         action_data |-> message.action_data,
                         simulated_day |-> user[u].simulated_day, pc |-> "validated"]}
                /\ UNCHANGED last
    /\ UNCHANGED <<utcnow, llm_call, demo_db>>
    /\ UNCHANGED <<user, chat_message, meal_log, exercise_log, sends, n_day_updates>>

\* confirm_tracking up to the creation of the log: the message is loaded
\* and validated.  message_id 0 stands for a text that is no UUID.
ConfirmBegin(u, message_id) ==
    /\ n_confirms < MaxConfirms
    /\ n_confirms' = n_confirms + 1
    /\ LET found   == message_id \in DOMAIN chat_message
           message == chat_message[message_id]
           reject(status, detail) ==
               /\ last' = [op |-> "confirm", user_id |-> u, message_id |-> message_id,
                           status |-> status, detail |-> detail]
               /\ UNCHANGED confirms
       IN  IF message_id = 0 THEN reject(400, "Invalid message ID format")
           ELSE IF ~found THEN reject(404, "Message not found")
           ELSE IF message.user_id # u THEN reject(404, "Message not found")
           ELSE IF message.action_type \notin {"propose_food", "propose_exercise"}
                THEN reject(400, "Message is not a trackable vision analysis")
           ELSE IF Truthy(message.action_data)
                   /\ (Get(message.action_data, "isTracked", FALSE)
                       \/ Get(message.action_data, "is_tracked", FALSE))
                THEN reject(400, "Already tracked")
           ELSE /\ confirms' = confirms \cup
                       {[rid |-> n_confirms + 1, user_id |-> u, message_id |-> message_id,
                         action_type |-> message.action_type,
                         action_data |-> message.action_data,
                         simulated_day |-> user[u].simulated_day, pc |-> "validated"]}
                /\ UNCHANGED last
    /\ UNCHANGED <<utcnow, llm_call, demo_db>>
    /\ UNCHANGED <<user, chat_message, meal_log, exercise_log, sends, n_day_updates>>

\* confirm_tracking: the log entry is created and committed
ConfirmCreateLog(c) ==
    /\ c \in confirms
    /\ c.pc = "validated"
    /\ LET food     == c.action_type = "propose_food" /\ Truthy(c.action_data)
           exercise == ~food /\ c.action_type = "propose_exercise" /\ Truthy(c.action_data)
           invalid  == \/ food /\ ~ValidMealLogCreate(c.action_data)
                       \/ exercise /\ ~ValidExerciseLogCreate(c.action_data)
       IN  IF invalid
           THEN /\ confirms' = confirms \ {c}
                /\ last' = [op |-> "confirm", user_id |-> c.user_id,
                            message_id |-> c.message_id, status |-> 500,
                            detail |-> "ValidationError"]
                /\ UNCHANGED <<meal_log, exercise_log>>
           ELSE /\ confirms' = (confirms \ {c}) \cup {[c EXCEPT !.pc = "logged"]}
                /\ meal_log' = IF food
                               THEN Append(meal_log, create_meal_log(c.user_id,
                                        MealLogCreate(c.action_data), c.simulated_day))
                               ELSE meal_log
                /\ exercise_log' = IF exercise
                                   THEN Append(exercise_log, create_exercise_log(c.user_id,
                                            ExerciseLogCreate(c.action_data),
                                            c.simulated_day))
                                   ELSE exercise_log
                /\ UNCHANGED last
    /\ UNCHANGED <<utcnow, llm_call, demo_db>>
    /\ UNCHANGED <<user, chat_message, sends, n_confirms, n_day_updates>>

\* dict(action_data) without "is_tracked" and with isTracked = True
MarkTracked(action_data) ==
    [k \in (DOMAIN action_data \ {"is_tracked"}) \cup {"isTracked"} |->
        IF k = "isTracked" THEN TRUE ELSE action_data[k]]

\* confirm_tracking: the message, reloaded after the commit of the log, is
\* marked as tracked and committed
ConfirmMarkTracked(c) ==
    /\ c \in confirms
    /\ c.pc = "logged"
    /\ confirms' = confirms \ {c}
    /\ LET updated_action_data == MarkTracked(chat_message[c.message_id].action_data)
       IN  /\ chat_message' = [chat_message EXCEPT
                                  ![c.message_id].action_data = updated_action_data]
           /\ last' = [op |-> "confirm", user_id |-> c.user_id,
                       message_id |-> c.message_id, status |-> 200,
                       action_type |-> c.action_type,
                       action_data |-> updated_action_data]
    /\ UNCHANGED <<utcnow, llm_call, demo_db>>
    /\ UNCHANGED <<user, meal_log, exercise_log, sends, n_confirms, n_day_updates>>

\* PUT /me/day
update_simulated_day(u, simulated_day) ==
    /\ n_day_updates < MaxDayUpdates
    /\ n_day_updates' = n_day_updates + 1
    /\ user' = [user EXCEPT ![u].simulated_day = simulated_day]
    /\ last' = [op |-> "update_simulated_day", user_id |-> u,
                simulated_day |-> simulated_day]
    /\ UNCHANGED <<utcnow, llm_call, demo_db>>
    /\ UNCHANGED <<chat_message, meal_log, exercise_log, sends, confirms, n_confirms>>

Next ==
    \/ \E u \in Users, message_in \in SendInputs : SendBegin(u, message_in, MaxMsgs)
    \/ \E r \in sends, env \in Envs : SendFinish(r, env)
    \/ \E u \in Users, message_id \in 0..(Len(chat_message) + 1) : ConfirmBegin(u, message_id)
    \/ \E c \in confirms : ConfirmCreateLog(c)
    \/ \E c \in confirms : ConfirmMarkTracked(c)
    \/ \E u \in Users, d \in Days : update_simulated_day(u, d)

Spec == Init /\ [][Next]_vars

\* ------------------------------------- text logging and days (SpecDay)
\* text messages that log or reset
DayInputs == {m \in SendInputs :
                m.content \in {"I ate a banana", "bench press 3x10 60kg",
                               "Reset, I ate a banana"}}

\* no provider, or a provider that extracts the exercise
DayEnvs == {env \in Envs :
              \/ ~env.llm
              \/ /\ env.extract # Nil
                 /\ env.extract.kind = "json"
                 /\ Get(env.extract.data, "exercise_name", None) = "Bench Press"}

NextDay ==
    \/ \E u \in Users, message_in \in DayInputs : SendBegin(u, message_in, MaxDayMsgs)
    \/ \E r \in sends, env \in DayEnvs : SendFinish(r, env)
    \/ \E u \in Users, d \in Days : update_simulated_day(u, d)

SpecDay == Init /\ [][NextDay]_vars

\* ------------------------------------------- stored histories (SpecHist)
\* ChatMessageBase.content: max_length
MaxContent == 2000

RECURSIVE Repeat(_, _)
Repeat(s, n) ==
    IF n = 0 THEN ""
    ELSE IF n % 2 = 1 THEN s \o Repeat(s \o s, n \div 2)
    ELSE Repeat(s \o s, n \div 2)

\* a text of the greatest length a message can have
LongContent == Repeat("0123456789", MaxContent \div 10)

\* the stored messages a history is made of: a user message with an image
\* whose data URL is kept in attachment_url, and a long assistant message
HistInputs == {
    [role |-> "user", content |-> "Image attached", attachment_type |-> "image",
     attachment_url |-> "data:image/jpeg;base64,/9j/4AAQSkZJRgABAQEASABIAAD"],
    [role |-> "assistant", content |-> LongContent, attachment_type |-> "none",
     attachment_url |-> None] }

\* crud_chat.create_chat_message called for user u1
CreateChatMessage(m) ==
    /\ Len(chat_message) < MaxHistMsgs
    /\ chat_message' = Append(chat_message,
           create_chat_message("u1", m.content, m.role, "none", Nil,
                               m.attachment_type, m.attachment_url))
    /\ UNCHANGED <<utcnow, llm_call, demo_db>>
    /\ UNCHANGED <<user, meal_log, exercise_log, sends, confirms, n_confirms,
                   n_day_updates, last>>

NextHist == \E m \in HistInputs : CreateChatMessage(m)

SpecHist == Init /\ [][NextHist]_vars

\* ------------------------------------- logs and summaries (SpecLogs)
MaxLogMsgs == 4     \* rows of chat_message, logging and resets (SpecLogs)
MaxDirectLogs == 2  \* rows of the log tables when POST /logs/* is accepted
MaxDate == 1        \* last UTC date the clock reaches

\* get_meal_logs_for_user / get_exercise_logs_for_user with both dates given:
\* logged_at >= start_date and logged_at < end_date
get_meal_logs_for_user(user_id, start_date, end_date) ==
    SelectSeq(meal_log, LAMBDA l :
        l.user_id = user_id /\ l.logged_at >= start_date /\ l.logged_at < end_date)

get_exercise_logs_for_user(user_id, start_date, end_date) ==
    SelectSeq(exercise_log, LAMBDA l :
        l.user_id = user_id /\ l.logged_at >= start_date /\ l.logged_at < end_date)

\* the logs of the current UTC date, from its first to its last instant
get_meal_logs_for_today(user_id) == get_meal_logs_for_user(user_id, utcnow, utcnow + 1)

get_exercise_logs_for_today(user_id) ==
    get_exercise_logs_for_user(user_id, utcnow, utcnow + 1)

\* GET /logs/today
get_todays_logs(current_user) ==
    [meal_logs |-> get_meal_logs_for_today(current_user),
     exercise_logs |-> get_exercise_logs_for_today(current_user)]

\* GET /summary/today
\* get_todays_summary taking the default protein target whenever the
\* calorie calculation is unavailable
get_todays_summary_default_protein(current_user) ==
    LET simulated_day == user[current_user].simulated_day
        meal_logs == get_meal_logs_for_simulated_day(current_user, simulated_day)
        exercise_logs == get_exercise_logs_for_simulated_day(current_user, simulated_day)
        calories_consumed == Sum([i \in DOMAIN meal_logs |-> meal_logs[i].calories])
        protein_consumed == Sum([i \in DOMAIN meal_logs |-> meal_logs[i].protein_g])
        workouts_completed == Len(exercise_logs)
        meal_plans == get_meal_plans_for_user(current_user, simulated_day)
        energy_metrics == calculate_energy_metrics(user[current_user])
        calories_target ==
            IF meal_plans # << >>
            THEN Sum([i \in DOMAIN meal_plans |-> meal_plans[i].calories])
            ELSE IF energy_metrics # Nil THEN energy_metrics.estimated_daily_calories
            ELSE 2000
        protein_target ==
            IF meal_plans # << >>
            THEN Sum([i \in DOMAIN meal_plans |-> meal_plans[i].protein_g])
            ELSE IF energy_metrics # Nil
            THEN user[current_user].protein_g_per_kg * user[current_user].weight_kg
            ELSE 1500
    IN  [calories_consumed |-> calories_consumed, calories_target |-> calories_target,
         protein_consumed |-> protein_consumed, protein_target |-> protein_target,
         workouts_completed |-> workouts_completed,
         calories_remaining |-> calories_target - calories_consumed,
         protein_remaining |-> protein_target - protein_consumed]

get_todays_summary(current_user) ==
    LET simulated_day == user[current_user].simulated_day
        meal_logs == get_meal_logs_for_simulated_day(current_user, simulated_day)
        exercise_logs == get_exercise_logs_for_simulated_day(current_user, simulated_day)
        calories_consumed == Sum([i \in DOMAIN meal_logs |-> meal_logs[i].calories])
        protein_consumed == Sum([i \in DOMAIN meal_logs |-> meal_logs[i].protein_g])
        workouts_completed == Len(exercise_logs)
        meal_plans == get_meal_plans_for_user(current_user, simulated_day)
        energy_metrics == calculate_energy_metrics(user[current_user])
        calories_target ==
            IF meal_plans # << >>
            THEN Sum([i \in DOMAIN meal_plans |-> meal_plans[i].calories])
            ELSE IF energy_metrics # Nil THEN energy_metrics.estimated_daily_calories
            ELSE 2000
        protein_target ==
            IF meal_plans # << >>
            THEN Sum([i \in DOMAIN meal_plans |-> meal_plans[i].protein_g])
            ELSE IF user[current_user].weight_kg # Null
            THEN user[current_user].protein_g_per_kg * user[current_user].weight_kg
            ELSE 1500
    IN  [calories_consumed |-> calories_consumed, calories_target |-> calories_target,
         protein_consumed |-> protein_consumed, protein_target |-> protein_target,
         workouts_completed |-> workouts_completed,
         calories_remaining |-> calories_target - calories_consumed,
         protein_remaining |-> protein_target - protein_consumed]

\* bodies of POST /logs/meal and POST /logs/exercise
MealLogInputs == {
    [meal_name |-> "Apple", meal_type |-> "snack", calories |-> 95, protein_g |-> 5,
     carbs_g |-> 250, fat_g |-> 3] }

ExerciseLogInputs == {
    [exercise_name |-> "Squat", sets |-> 5, reps |-> 5, weight_kg |-> 100 * KG] }

\* POST /logs/meal: create_meal_log is called without a simulated day, and
\* the row takes the default of the column
log_meal(current_user, meal_log_in) ==
    /\ Len(meal_log) + Len(exercise_log) < MaxDirectLogs
    /\ meal_log' = Append(meal_log, create_meal_log(current_user, meal_log_in, 0))
    /\ last' = [op |-> "log_meal", user_id |-> current_user, status |-> 200]
    /\ UNCHANGED <<user, chat_message, exercise_log, sends, confirms, n_confirms,
                   n_day_updates, utcnow, llm_call, demo_db>>

\* POST /logs/exercise: simulated_day keeps its default, 0
log_exercise(current_user, exercise_log_in) ==
    /\ Len(meal_log) + Len(exercise_log) < MaxDirectLogs
    /\ exercise_log' = Append(exercise_log,
                              create_exercise_log(current_user, exercise_log_in, 0))
    /\ last' = [op |-> "log_exercise", user_id |-> current_user, status |-> 200]
    /\ UNCHANGED <<user, chat_message, meal_log, sends, confirms, n_confirms,
                   n_day_updates, utcnow, llm_call, demo_db>>

\* the UTC date changes
Midnight ==
    /\ utcnow < MaxDate
    /\ utcnow' = utcnow + 1
    /\ UNCHANGED <<user, chat_message, meal_log, exercise_log, sends, confirms,
                   n_confirms, n_day_updates, last, llm_call, demo_db>>

\* messages that log, reset, or carry a stored image
LogInputs == {m \in SendInputs :
                \/ m.content \in {"I ate a banana", "bench press 3x10 60kg",
                                  "Reset, I ate a banana"}
                \/ m.attachment_url = "11111111-1111-1111-1111-111111111111"}

\* no provider, or a provider that recognises the exercise and the equipment
LogEnvs == DayEnvs

\* one client: a request is sent when the answer to the previous one is in
Idle == sends = {} /\ confirms = {}

NextLogs ==
    \/ Idle /\ \E message_in \in LogInputs : SendBegin("u1", message_in, MaxLogMsgs)
    \/ \E r \in sends, env \in LogEnvs : SendFinish(r, env)
    \/ Idle /\ \E message_id \in 1..Len(chat_message) : ConfirmBegin("u1", message_id)
    \/ \E c \in confirms : ConfirmCreateLog(c)
    \/ \E c \in confirms : ConfirmMarkTracked(c)
    \/ Idle /\ \E d \in Days : update_simulated_day("u1", d)
    \/ Idle /\ \E meal_log_in \in MealLogInputs : log_meal("u1", meal_log_in)
    \/ Idle /\ \E exercise_log_in \in ExerciseLogInputs : log_exercise("u1", exercise_log_in)
    \/ Idle /\ Midnight

SpecLogs == Init /\ [][NextLogs]_vars

\* ------------------------------- the language-model provider (SpecLLM)
\* extract_json / extract_json_from_image: max_retries
max_retries == 3

\* the texts a response of the model can carry: a JSON object, the object in
\* a code fence, prose, and an object cut short
JsonObjectText == "{\"exercise_name\": \"Squat\"}"
\* the backquote, which a string of this module cannot hold, is written ~
Backtick == "~"
Fence == Backtick \o Backtick \o Backtick
FencedText == Fence \o "json\n" \o JsonObjectText \o "\n" \o Fence
ProseText == "I could not read the image."
TruncatedText == "{\"exercise_name\": \"Squ"

\* what one call of generate_content_async under asyncio.wait_for comes to:
\* a response (text None when no part carries text) or an exception with its
\* str(e); class is the kind of failure, which the program does not see
ProviderOutcomes == {
    [kind |-> "response", class |-> "ok", text |-> JsonObjectText],
    [kind |-> "response", class |-> "ok", text |-> FencedText],
    [kind |-> "response", class |-> "malformed", text |-> ProseText],
    [kind |-> "response", class |-> "malformed", text |-> TruncatedText],
    [kind |-> "response", class |-> "malformed", text |-> None],
    [kind |-> "exception", class |-> "timeout", exc |-> "TimeoutError", text |-> ""],
    [kind |-> "exception", class |-> "rate_limit", exc |-> "ResourceExhausted",
     text |-> "429 Resource has been exhausted (e.g. check quota)."],
    [kind |-> "exception", class |-> "server", exc |-> "InternalServerError",
     text |-> "500 An internal error has occurred."],
    [kind |-> "exception", class |-> "not_found", exc |-> "NotFound",
     text |-> "404 models/gemini-2.5-flash is not found for API version v1beta, or is not supported for generateContent."] }

\* json.loads: the parsed value, or Nil for json.JSONDecodeError
json_loads(s) ==
    IF s = JsonObjectText
    THEN [type |-> "dict", value |-> [exercise_name |-> "Squat"]]
    ELSE Nil

\* str.strip(chars)
RECURSIVE StripChars(_, _)
StripChars(s, chars) ==
    IF s = "" THEN s
    ELSE IF Char(s, 1) \in chars THEN StripChars(SubSeq(s, 2, Len(s)), chars)
    ELSE IF Char(s, Len(s)) \in chars THEN StripChars(SubSeq(s, 1, Len(s) - 1), chars)
    ELSE s

Whitespace == {" ", "\n", "\t"}

\* the longest match of \[[\s\S]*\] or \{[\s\S]*\}: from the first opening
\* character that has a closing one after it to the last closing character
Bracketed(s, open, close) ==
    LET opens  == {i \in 1..Len(s) : Char(s, i) = open}
        closes == {i \in 1..Len(s) : Char(s, i) = close}
    IN  IF opens = {} \/ closes = {} THEN None
        ELSE LET first == Min(opens)
                 last_close == CHOOSE i \in closes : \A j \in closes : j <= i
             IN  IF first < last_close THEN SubSeq(s, first, last_close) ELSE None

\* the dicts of a parsed list
DictsOf(items) ==
    LET dicts == SelectSeq(items, LAMBDA d : d.type = "dict")
    IN  [i \in DOMAIN dicts |-> dicts[i].value]

\* GoogleLLMProvider._parse_json
parse_json(raw_in) ==
    IF raw_in = None \/ raw_in = "" THEN << >>
    ELSE
    LET raw0 == StripChars(raw_in, Whitespace)
        direct == json_loads(raw0)
    IN  IF direct # Nil /\ direct.type = "dict" THEN <<direct.value>>
        ELSE IF direct # Nil /\ direct.type = "list" THEN DictsOf(direct.items)
        ELSE
        LET unfenced == StripChars(raw0, {Backtick})
            raw == IF StartsAt(raw0, 1, Fence)
                   THEN IF StartsAt(Lower(unfenced), 1, "json")
                        THEN StripChars(SubSeq(unfenced, 5, Len(unfenced)), Whitespace)
                        ELSE unfenced
                   ELSE raw0
            array_match  == Bracketed(raw, "[", "]")
            array_obj    == IF array_match = None THEN Nil ELSE json_loads(array_match)
            object_match == Bracketed(raw, "{", "}")
            object_obj   == IF object_match = None THEN Nil ELSE json_loads(object_match)
        IN  IF array_obj # Nil /\ array_obj.type = "list" THEN DictsOf(array_obj.items)
            ELSE IF object_obj # Nil /\ object_obj.type = "dict" THEN <<object_obj.value>>
            ELSE << >>

\* GoogleLLMProvider._extract_text
extract_text(response) ==
    IF response.text # None /\ StripChars(response.text, Whitespace) # ""
    THEN response.text ELSE None

\* is_rate_limit = "429" in msg or "rate" in msg.lower()
is_rate_limit(msg) == Contains(msg, "429") \/ Contains(Lower(msg), "rate")

\* 2 ** n
RECURSIVE Pow2(_)
Pow2(n) == IF n = 0 THEN 1 ELSE 2 * Pow2(n - 1)

\* the image arguments of a call: none, one that _build_image_parts turns
\* into a part, one it cannot decode or fetch
ImageArgs == {"missing", "ok", "unreadable"}

\* what a finished call hands to its caller
ReturnNone == [type |-> "NoneType"]
ReturnStr(text) == IF text = None THEN ReturnNone ELSE [type |-> "str", value |-> text]
ReturnList(items) == [type |-> "list", value |-> items]

\* a caller awaits operation op of the provider
LLMCall(op, image) ==
    /\ llm_call.pc = "idle"
    /\ llm_call' = [pc |-> "running", op |-> op, image |-> image, attempt |-> 0,
                    seen |-> << >>, slept |-> << >>]
    /\ UNCHANGED <<user, chat_message, meal_log, exercise_log, sends, confirms,
                   n_confirms, n_day_updates, last, utcnow, demo_db>>

\* the call returns result without a further request to the model
Return(result) ==
    llm_call' = [llm_call EXCEPT !.pc = "returned"] @@ [result |-> result]

\* the call returns result after the request that came to outcome
ReturnAfter(outcome, result) ==
    llm_call' = [llm_call EXCEPT !.pc = "returned",
                                 !.seen = Append(@, outcome)] @@ [result |-> result]

\* the classes an exception is an instance of
Bases(exc) ==
    IF exc = "TimeoutError" THEN {"TimeoutError", "OSError", "Exception"}
    ELSE {exc, "GoogleAPIError", "Exception"}

\* the except clauses around the request, by operation
generate_handlers_timeout_only == {"TimeoutError"}
generate_handlers == {"TimeoutError", "Exception"}
extract_json_handlers == {"Exception"}

\* no except clause takes the exception: the call raises to its caller
Raise(outcome) ==
    llm_call' = [llm_call EXCEPT !.pc = "raised", !.seen = Append(@, outcome)]

\* the loop sleeps wait_time seconds and goes to the next attempt
SleepAndContinue(outcome, wait_time) ==
    llm_call' = [llm_call EXCEPT !.attempt = @ + 1, !.seen = Append(@, outcome),
                                 !.slept = Append(@, wait_time)]

\* GoogleLLMProvider.generate
llm_generate ==
    /\ llm_call.pc = "running" /\ llm_call.op = "generate"
    /\ \E outcome \in ProviderOutcomes :
          IF outcome.kind = "response"
          THEN ReturnAfter(outcome, ReturnStr(extract_text(outcome)))
          ELSE IF Bases(outcome.exc) \cap generate_handlers # {}
          THEN ReturnAfter(outcome, ReturnNone)
          ELSE Raise(outcome)
    /\ UNCHANGED <<user, chat_message, meal_log, exercise_log, sends, confirms,
                   n_confirms, n_day_updates, last, utcnow, demo_db>>

\* one turn of the loop of extract_json and extract_json_from_image
RetryLoop ==
    IF llm_call.attempt >= max_retries THEN Return(ReturnList(<< >>))
    ELSE \E outcome \in ProviderOutcomes :
            IF outcome.kind = "response"
            THEN ReturnAfter(outcome, ReturnList(parse_json(extract_text(outcome))))
            ELSE IF Bases(outcome.exc) \cap extract_json_handlers = {}
            THEN Raise(outcome)
            ELSE IF is_rate_limit(outcome.text) /\ llm_call.attempt < max_retries - 1
            THEN SleepAndContinue(outcome, Pow2(llm_call.attempt + 1))
            ELSE ReturnAfter(outcome, ReturnList(<< >>))

\* GoogleLLMProvider.extract_json
llm_extract_json ==
    /\ llm_call.pc = "running" /\ llm_call.op = "extract_json"
    /\ RetryLoop
    /\ UNCHANGED <<user, chat_message, meal_log, exercise_log, sends, confirms,
                   n_confirms, n_day_updates, last, utcnow, demo_db>>

\* GoogleLLMProvider.analyze_image: without image data, or when
\* _build_image_parts adds no image part, no request is made
llm_analyze_image ==
    /\ llm_call.pc = "running" /\ llm_call.op = "analyze_image"
    /\ IF llm_call.image # "ok" THEN Return(ReturnNone)
       ELSE \E outcome \in ProviderOutcomes :
               IF outcome.kind = "response"
               THEN ReturnAfter(outcome, ReturnStr(extract_text(outcome)))
               ELSE IF Bases(outcome.exc) \cap generate_handlers # {}
               THEN ReturnAfter(outcome, ReturnNone)
               ELSE Raise(outcome)
    /\ UNCHANGED <<user, chat_message, meal_log, exercise_log, sends, confirms,
                   n_confirms, n_day_updates, last, utcnow, demo_db>>

\* GoogleLLMProvider.extract_json_from_image
llm_extract_json_from_image ==
    /\ llm_call.pc = "running" /\ llm_call.op = "extract_json_from_image"
    /\ IF llm_call.image # "ok" THEN Return(ReturnList(<< >>))
       ELSE RetryLoop
    /\ UNCHANGED <<user, chat_message, meal_log, exercise_log, sends, confirms,
                   n_confirms, n_day_updates, last, utcnow, demo_db>>

NextLLM ==
    \/ \E op \in {"generate", "extract_json"} : LLMCall(op, "missing")
    \/ \E op \in {"analyze_image", "extract_json_from_image"}, image \in ImageArgs :
          LLMCall(op, image)
    \/ llm_generate
    \/ llm_extract_json
    \/ llm_analyze_image
    \/ llm_extract_json_from_image

\* the event loop resumes a call that can go on: each request ends by
\* timeout_s at the latest and each sleep is finite
SpecLLM == Init /\ [][NextLLM]_vars /\ WF_vars(NextLLM)

\* ------------------------------------- food messages by text (SpecFood)
MaxFoodMsgs == 4    \* rows of chat_message, food messages (SpecFood)

FoodNames == {FOOD_DB[i].name : i \in DOMAIN FOOD_DB}

\* the known food names that contain another known food name
DishNames == {B \in FoodNames : \E A \in FoodNames : A # B /\ Contains(B, A)}

\* the second food of a message that names two
SecondFoods == {"rice and grilled chicken", "chicken salad", "protein shake",
                "avocado toast", "banana"}

\* what follows a food trigger word when no known food is named
UnknownFoods == {"pizza", "squats 5x5 100kg", "pizza, then reset"}

TextMessage(content) ==
    [content |-> content, attachment_type |-> "none", attachment_url |-> None]

\* bodies of POST /chat/messages that talk about food: one known food, a
\* dish with one more food, other casing, a name without a trigger word, a
\* trigger word without a known food
FoodInputs ==
    {TextMessage("I ate " \o F) : F \in FoodNames}
    \cup {TextMessage("I ate " \o p[1] \o " and " \o p[2]) :
              p \in {q \in DishNames \X SecondFoods : q[1] # q[2]}}
    \cup {TextMessage("Grilled Chicken Salad for lunch"),
          TextMessage("PROTEIN SHAKE"),
          TextMessage("salmon"),
          TextMessage("I hate mondays")}
    \cup {TextMessage("I " \o keyword \o " some " \o x) :
              keyword \in FOOD_KEYWORDS, x \in UnknownFoods}

NextFood ==
    \/ Idle /\ \E message_in \in FoodInputs : SendBegin("u1", message_in, MaxFoodMsgs)
    \/ \E r \in sends, env \in DayEnvs : SendFinish(r, env)

SpecFood == Init /\ [][NextFood]_vars

\* --------------------------------- exercise messages by text (SpecExercise)
MaxExerciseMsgs == 4    \* rows of chat_message, exercise messages (SpecExercise)

\* bodies of POST /chat/messages that talk about exercise: an alias without
\* numbers, an exercise keyword that is no alias, aliases with numbers
ExerciseInputs == {
    TextMessage("Did some squat"),
    TextMessage("Just finished leg press"),
    TextMessage("did some reps"),
    TextMessage("bench press 3x10 60kg"),
    TextMessage("leg press 4x10 80kg") }

\* the provider during an exercise message: none, no answer, an answer
\* without JSON, one whose JSON does not parse, an extraction that only
\* names the exercise, a full extraction
ExerciseEnvs == {
    [llm |-> FALSE, extract |-> Nil, chat |-> None, classify |-> None,
     image_json |-> << >>],
    [llm |-> TRUE, extract |-> Nil, chat |-> None, classify |-> None,
     image_json |-> << >>],
    [llm |-> TRUE, extract |-> [kind |-> "nojson"], chat |-> "Keep it up!",
     classify |-> None, image_json |-> << >>],
    [llm |-> TRUE, extract |-> [kind |-> "badjson"], chat |-> None,
     classify |-> None, image_json |-> << >>],
    [llm |-> TRUE,
     extract |-> [kind |-> "json", data |-> [exercise_name |-> "Leg Press"]],
     chat |-> "Keep it up!", classify |-> None, image_json |-> << >>],
    [llm |-> TRUE,
     extract |-> [kind |-> "json",
                  data |-> [exercise_name |-> "Bench Press", sets |-> 3, reps |-> 10,
                            weight_kg |-> 60 * KG]],
     chat |-> "Keep it up!", classify |-> None, image_json |-> << >>] }

NextExercise ==
    \/ Idle /\ \E message_in \in ExerciseInputs :
                   SendBegin("u2", message_in, MaxExerciseMsgs)
    \/ \E r \in sends, env \in ExerciseEnvs : SendFinish(r, env)
    \/ Idle /\ \E d \in Days : update_simulated_day("u2", d)

SpecExercise == Init /\ [][NextExercise]_vars

\* ------------------------------------------------- demo login (SpecDemo)
MaxLogins == 3      \* POST /demo/login/{persona} requests per persona

PERSONAS == [
    cut |-> [email |-> "demo-cut@test.com", full_name |-> "Alex (Cutting)",
             sex |-> "male", weight_kg |-> 85, height_cm |-> 180, age |-> 30,
             goal_method |-> "standard_cut", activity_level |-> "very_active"],
    bulk |-> [email |-> "demo-bulk@test.com", full_name |-> "Jordan (Bulking)",
              sex |-> "male", weight_kg |-> 75, height_cm |-> 178, age |-> 25,
              goal_method |-> "moderate_gain", activity_level |-> "very_active"],
    maintain |-> [email |-> "demo-maintain@test.com", full_name |-> "Sam (Maintenance)",
                  sex |-> "female", weight_kg |-> 65, height_cm |-> 168, age |-> 28,
                  goal_method |-> "maintenance",
                  activity_level |-> "moderately_active"]]

\* path parameters of POST /demo/login/{persona}
PersonaArgs == DOMAIN PERSONAS \cup {"unknown"}

RoutineRow(program_id, program_name, day_of_week, exercise_name, sets, reps, target_load_kg) ==
    [program_id |-> program_id, program_name |-> program_name,
     day_of_week |-> day_of_week, exercise_name |-> exercise_name,
     sets |-> sets, reps |-> reps, target_load_kg |-> target_load_kg]

\* data/routines_<persona>.csv: two days of one program; one program with a
\* row that fails validation and a second program id under the same name;
\* no file for "maintain"
RoutineCsv == [
    cut |-> << RoutineRow("ppl", "Push Pull Legs", 0, "Bench Press", 4, 8, 80 * KG),
               RoutineRow("ppl", "Push Pull Legs", 1, "Barbell Row", 4, 8, 70 * KG) >>,
    bulk |-> << RoutineRow("ul", "Upper Lower", 0, "Overhead Press", 0, 8, 40 * KG),
                RoutineRow("ul", "Upper Lower", 0, "Barbell Squat", 5, 5, 100 * KG),
                RoutineRow("ul2", "Upper Lower", 7, "Deadlift", 5, 5, 120 * KG) >>]

\* data/meal_plans_<persona>.csv
MealCsv == [
    cut |-> << [day_of_week |-> 0, meal_type |-> "breakfast", item_name |-> "Oatmeal",
                calories |-> 300, protein_g |-> 120, carbs_g |-> 500, fat_g |-> 60] >>,
    maintain |-> << [day_of_week |-> 0, meal_type |-> "lunch",
                     item_name |-> "Chicken Rice", calories |-> 600,
                     protein_g |-> 450, carbs_g |-> 600, fat_g |-> 120],
                    [day_of_week |-> 9, meal_type |-> "dinner",
                     item_name |-> "Salmon Bowl", calories |-> 500,
                     protein_g |-> 350, carbs_g |-> 400, fat_g |-> 200] >>]

\* select(...).first() over a table: the index of the first row that
\* satisfies the condition, 0 when there is none
First(rows, Cond(_)) ==
    IF \E i \in DOMAIN rows : Cond(rows[i])
    THEN Min({i \in DOMAIN rows : Cond(rows[i])}) ELSE 0

\* one turn of the loop over the rows of the file; st holds the tables and
\* the locals programs and programs_with_routines
LoadRow(st, row, skip_existing) ==
    LET program_key == row.program_id
        existing == First(st.db.training_program,
                          LAMBDA p : p.name = row["program_name"])
        new_id == Len(st.db.training_program) + 1
        st1 == IF program_key \in DOMAIN st.programs THEN st
               ELSE IF existing # 0
               THEN [st EXCEPT
                        !.programs = (program_key :> st.db.training_program[existing].id) @@ @,
                        !.programs_with_routines =
                            IF skip_existing
                               /\ First(st.db.training_routine,
                                        LAMBDA r : r.program_id =
                                                st.db.training_program[existing].id) # 0
                            THEN @ \cup {program_key} ELSE @]
               ELSE [st EXCEPT
                        !.db.training_program =
                            Append(@, [id |-> new_id, name |-> row["program_name"]]),
                        !.programs = (program_key :> new_id) @@ @]
    IN  IF program_key \in st1.programs_with_routines THEN st1
        ELSE IF row.sets <= 0 \/ row.reps <= 0 THEN st1
        ELSE IF row.target_load_kg < 0 THEN st1
        ELSE IF row.day_of_week < 0 \/ row.day_of_week > 6 THEN st1
        ELSE [st1 EXCEPT
                 !.db.training_routine =
                     Append(@, [program_id |-> st1.programs[program_key],
                                day_of_week |-> row.day_of_week,
                                exercise_name |-> row.exercise_name,
                                sets |-> row.sets, reps |-> row.reps,
                                target_load_kg |-> row.target_load_kg])]

RECURSIVE LoadRows(_, _, _, _)
LoadRows(st, rows, i, skip_existing) ==
    IF i > Len(rows) THEN st
    ELSE LoadRows(LoadRow(st, rows[i], skip_existing), rows, i + 1, skip_existing)

\* load_training_programs creating the routines of every row, whether the
\* program already has routines or not
load_training_programs_always(db, csv_path) ==
    IF csv_path \notin DOMAIN RoutineCsv THEN db
    ELSE LoadRows([db |-> db, programs |-> << >>, programs_with_routines |-> {}],
                  RoutineCsv[csv_path], 1, FALSE).db

\* the tables after load_training_programs(session, csv_path)
load_training_programs(db, csv_path) ==
    IF csv_path \notin DOMAIN RoutineCsv THEN db
    ELSE LoadRows([db |-> db, programs |-> << >>, programs_with_routines |-> {}],
                  RoutineCsv[csv_path], 1, TRUE).db

\* load_training_programs_for_persona: the tables and the program returned
load_training_programs_for_persona(db, persona) ==
    IF persona \notin DOMAIN RoutineCsv THEN [db |-> db, program |-> Null]
    ELSE LET db1  == load_training_programs(db, persona)
             rows == RoutineCsv[persona]
             found == IF rows = << >> THEN 0
                      ELSE First(db1.training_program,
                                 LAMBDA p : p.name = rows[1]["program_name"])
         IN  [db |-> db1,
              program |-> IF found = 0 THEN Null ELSE db1.training_program[found].id]

\* the table meal_plan after load_meal_plans_for_persona
load_meal_plans_for_persona(meal_plan, user_id, persona) ==
    IF persona \notin DOMAIN MealCsv THEN meal_plan
    ELSE LET rows  == MealCsv[persona]
             valid == SelectSeq(rows, LAMBDA row :
                          /\ ~(row.calories < 0 \/ row.protein_g < 0
                               \/ row.carbs_g < 0 \/ row.fat_g < 0)
                          /\ ~(row.day_of_week < 0 \/ row.day_of_week > 6))
         IN  meal_plan \o [i \in DOMAIN valid |-> [user_id |-> user_id] @@ valid[i]]

\* get_or_create_demo_user for a persona of PERSONAS: the tables and the
\* user returned
get_or_create_demo_user(db, persona) ==
    LET config  == PERSONAS[persona]
        loaded  == load_training_programs_for_persona(db, persona)
        program == loaded.program
        db1     == loaded.db
        existing_user == First(db1.user, LAMBDA u : u.email = config.email)
    IN  IF existing_user # 0
        THEN LET old == db1.user[existing_user]
                 updated == [old EXCEPT
                                !.full_name = config.full_name, !.sex = config.sex,
                                !.weight_kg = config.weight_kg,
                                !.height_cm = config.height_cm, !.age = config.age,
                                !.goal_method = config.goal_method,
                                !.activity_level = config.activity_level,
                                !.onboarding_complete = FALSE,
                                !.simulated_day = 0,
                                !.selected_program_id =
                                    IF program # Null THEN program ELSE @]
                 cleared == SelectSeq(db1.meal_plan, LAMBDA m : m.user_id # old.id)
             IN  [db |-> [db1 EXCEPT
                            !.user[existing_user] = updated,
                            !.meal_plan =
                                load_meal_plans_for_persona(cleared, old.id, persona)],
                  user |-> updated]
        ELSE LET new_user == [id |-> Len(db1.user) + 1, email |-> config.email,
                              full_name |-> config.full_name, sex |-> config.sex,
                              weight_kg |-> config.weight_kg,
                              height_cm |-> config.height_cm, age |-> config.age,
                              goal_method |-> config.goal_method,
                              activity_level |-> config.activity_level,
                              onboarding_complete |-> FALSE, simulated_day |-> 0,
                              selected_program_id |-> program]
             IN  [db |-> [db1 EXCEPT
                            !.user = Append(@, new_user),
                            !.meal_plan = load_meal_plans_for_persona(
                                              @, new_user.id, persona)],
                  user |-> new_user]

\* POST /demo/login/{persona}
demo_login(persona) ==
    /\ demo_db.n_logins[persona] < MaxLogins
    /\ IF persona \notin DOMAIN PERSONAS
       THEN /\ demo_db' = [demo_db EXCEPT !.n_logins[persona] = @ + 1]
            /\ last' = [op |-> "demo_login", persona |-> persona, status |-> 404]
       ELSE \E result \in {get_or_create_demo_user(
                               [t \in {"training_program", "training_routine", "user",
                                       "meal_plan"} |-> demo_db[t]], persona)} :
               /\ demo_db' = [t \in DOMAIN demo_db |->
                                 IF t = "n_logins"
                                 THEN [demo_db.n_logins EXCEPT ![persona] = @ + 1]
                                 ELSE result.db[t]]
               /\ last' = [op |-> "demo_login", persona |-> persona, status |-> 200,
                           subject |-> result.user.id]
    /\ UNCHANGED <<user, chat_message, meal_log, exercise_log, sends, confirms,
                   n_confirms, n_day_updates, utcnow, llm_call>>

NextDemo == \E persona \in PersonaArgs : demo_login(persona)

SpecDemo == Init /\ [][NextDemo]_vars

\* ------------------------------------------ daily targets (SpecTargets)
\* bodies of PUT /me: the fields that are set, a null clearing the field
ProfileUpdates ==
    {[weight_kg |-> w] : w \in {Null, 85}}
      \cup {[height_cm |-> h] : h \in {Null, 180}}
      \cup {[age |-> a] : a \in {Null, 30}}
      \cup {[sex |-> x] : x \in {None, "male"}}
      \cup {[goal_method |-> "maintenance", activity_level |-> "sedentary"],
            [weight_kg |-> 60, height_cm |-> 165, age |-> 25, sex |-> "female"]}

\* PUT /me
update_current_user_profile(u, profile_update) ==
    /\ user' = [user EXCEPT ![u] =
                   [field \in DOMAIN @ |->
                       IF field \in DOMAIN profile_update
                       THEN profile_update[field] ELSE @[field]]]
    /\ last' = [op |-> "update_current_user_profile", user_id |-> u,
                weight_kg |-> user'[u].weight_kg, height_cm |-> user'[u].height_cm,
                age |-> user'[u].age, sex |-> user'[u].sex]
    /\ UNCHANGED <<utcnow, llm_call, demo_db>>
    /\ UNCHANGED <<chat_message, meal_log, exercise_log, sends, confirms,
                   n_confirms, n_day_updates>>

NextTargets ==
    \/ \E profile_update \in ProfileUpdates :
           update_current_user_profile("u2", profile_update)
    \/ \E d \in Days : update_simulated_day("u2", d)

SpecTargets == Init /\ [][NextTargets]_vars

\* --------------------------------------- resets and their frame (SpecReset)
MaxResetMsgs == 4   \* rows of chat_message, resets among two users (SpecReset)

\* messages that log, reset, or carry a stored image
ResetInputs == {m \in SendInputs :
                  \/ m.content \in {"bench press 3x10 60kg", "Reset, I ate a banana"}
                  \/ m.attachment_url = "11111111-1111-1111-1111-111111111111"}

\* u1 chats, confirms and changes the day; both users post logs directly
NextReset ==
    \/ Idle /\ \E message_in \in ResetInputs : SendBegin("u1", message_in, MaxResetMsgs)
    \/ \E r \in sends, env \in LogEnvs : SendFinish(r, env)
    \/ Idle /\ \E message_id \in 1..Len(chat_message) : ConfirmBegin("u1", message_id)
    \/ \E c \in confirms : ConfirmCreateLog(c)
    \/ \E c \in confirms : ConfirmMarkTracked(c)
    \/ Idle /\ \E d \in Days : update_simulated_day("u1", d)
    \/ Idle /\ \E u \in Users, meal_log_in \in MealLogInputs : log_meal(u, meal_log_in)
    \/ Idle /\ \E u \in Users, exercise_log_in \in ExerciseLogInputs :
                   log_exercise(u, exercise_log_in)

SpecReset == Init /\ [][NextReset]_vars

\* ================================================================ claims

ActionTypes == {"log_food", "log_exercise", "propose_food", "propose_exercise",
                "reset", "none"}
Propose == {"propose_food", "propose_exercise"}

\* the first routing step that applies to a request
RoutingStep(r) ==
    LET lower == Lower(r.content)
    IN  IF r.attachment_type = "audio" THEN "audio"
        ELSE IF r.attachment_type = "image" THEN "image"
        ELSE IF Contains(lower, "reset") THEN "reset"
        ELSE IF \E i \in DOMAIN FOOD_DB : Contains(lower, FOOD_DB[i].name) THEN "food"
        ELSE IF \E k \in EXERCISE_KEYWORDS : Contains(lower, k) THEN "exercise"
        ELSE "fallback"

\* the actions a routing step can emit
StepActions(step) ==
    CASE step = "audio"    -> {"none"}
      [] step = "image"    -> {"propose_food", "propose_exercise", "none"}
      [] step = "reset"    -> {"reset"}
      [] step = "food"     -> {"log_food"}
      [] step = "exercise" -> {"log_exercise", "none"}
      [] step = "fallback" -> {"none"}

\* C1: every answered message carries exactly one action, the action of the
\* first routing step that applies, in the order audio attachment, image
\* attachment, the substring "reset", food, exercise, general fallback; a
\* text holding both "reset" and a food word yields RESET, never LOG_FOOD.
C1_RoutingPriority ==
    (last.op = "send" /\ last.status = 200) =>
        /\ last.action_type \in ActionTypes
        /\ last.action_type \in StepActions(RoutingStep(last.request))
        /\ chat_message[last.id].action_type = last.action_type
        /\ (/\ last.request.attachment_type = "none"
            /\ Contains(Lower(last.request.content), "reset")
            /\ Contains(Lower(last.request.content), "banana"))
           => last.action_type = "reset"

\* C1 witness: "Reset, I ate a banana" was answered with RESET
C1_Witness ==
    /\ last.op = "send"
    /\ last.status = 200
    /\ last.request.content = "Reset, I ate a banana"
    /\ last.action_type = "reset"

NumLogs == Len(meal_log) + Len(exercise_log)

\* action_data.isTracked of a stored message
IsTracked(message) ==
    Truthy(message.action_data) /\ Get(message.action_data, "isTracked", FALSE)

\* the logs a confirmed proposal stands for
LogsOf(message) ==
    IF message.action_type = "propose_food"
    THEN SelectSeq(meal_log, LAMBDA l :
             /\ l.user_id = message.user_id
             /\ l.meal_name = message.action_data.meal_name
             /\ l.calories = message.action_data.calories)
    ELSE SelectSeq(exercise_log, LAMBDA l :
             /\ l.user_id = message.user_id
             /\ l.exercise_name = message.action_data.exercise_name
             /\ l.sets = message.action_data.sets)

\* C2: a confirm of a PROPOSE_FOOD or PROPOSE_EXERCISE message that passes
\* the precondition checks answers 200, has created exactly one log for the
\* proposal and has set isTracked; a later confirm of the message answers 400.
C2_ConfirmOnceCreatesOneLog ==
    /\ (last.op = "confirm" /\ last.status \notin {400, 404}) =>
           /\ last.status = 200
           /\ IsTracked(chat_message[last.message_id])
           /\ Len(LogsOf(chat_message[last.message_id])) = 1
    /\ (/\ last.op = "confirm"
        /\ last.message_id \in DOMAIN chat_message
        /\ chat_message[last.message_id].user_id = last.user_id
        /\ confirms = {}
        /\ IsTracked(chat_message[last.message_id])) => last.status \in {200, 400}

\* C3: whatever the interleaving of confirm requests on one PROPOSE message,
\* a log is created for it only while none has been created before: the
\* message is not tracked yet and no other request has created its log.
C3_AtMostOneLogPerMessage ==
    [][\A c \in confirms :
          (c.pc = "validated" /\ [c EXCEPT !.pc = "logged"] \in confirms')
          => /\ ~IsTracked(chat_message[c.message_id])
             /\ ~\E d \in confirms : d.message_id = c.message_id /\ d.pc = "logged"]_vars

\* the confirm request is one that confirm_tracking must reject
ConfirmRejectable(u, message_id) ==
    \/ message_id \notin DOMAIN chat_message
    \/ chat_message[message_id].user_id # u
    \/ chat_message[message_id].action_type \notin Propose
    \/ IsTracked(chat_message[message_id])

\* C4: a confirm request whose message is not found, is not owned by the
\* caller, has an action that is not PROPOSE_* or is already tracked is
\* answered with a client error (400 or 404), and the step creates no log
\* and leaves every message unchanged.
C4_RejectedConfirmChangesNothing ==
    [][n_confirms' = n_confirms + 1 =>
         LET received == IF confirms' = confirms THEN last'
                         ELSE CHOOSE c \in confirms' \ confirms : TRUE
         IN  ConfirmRejectable(received.user_id, received.message_id) =>
                 /\ confirms' = confirms
                 /\ last'.op = "confirm"
                 /\ last'.status \in {400, 404}
                 /\ UNCHANGED <<chat_message, meal_log, exercise_log>>]_vars

\* C4 witness: each kind of rejection has been answered: here the confirm of
\* a tracked message, with the one log of the first confirm in place
C4_Witness ==
    /\ last.op = "confirm"
    /\ last.status = 400
    /\ last.detail = "Already tracked"
    /\ NumLogs = 1
    /\ confirms = {}

MostRecent(user_id, limit) ==
    LET mine == SelectSeq(chat_message, LAMBDA m : m.user_id = user_id)
    IN  SubSeq(mine, IF Len(mine) > limit THEN Len(mine) - limit + 1 ELSE 1, Len(mine))

\* role and text of each message
Entries(msgs) == [i \in DOMAIN msgs |-> [role |-> msgs[i].role, content |-> msgs[i].content]]

IsPrefix(s, t) == Len(s) <= Len(t) /\ SubSeq(t, 1, Len(s)) = s

TotalChars(history) == Sum([i \in DOMAIN history |-> Len(history[i].content)])

\* C6: chat_history is made of the user's 10 most recent messages, oldest
\* first and each one whole; it leaves out the rest of them only from the
\* first message on that would take the total over the character budget.
C6_MostRecentMessages ==
    LET history == build_chat_history("u1")
        recent  == Entries(MostRecent("u1", 10))
    IN  /\ IsPrefix(history, recent)
        /\ Len(history) < Len(recent)
           => TotalChars(history) + Len(recent[Len(history) + 1].content) > 10000

\* C7: chat_history has at most 10 entries, their contents add up to at most
\* 10,000 characters, and each entry has a role and a content and no more.
C7_HistoryBounded ==
    LET history == build_chat_history("u1")
    IN  /\ Len(history) <= 10
        /\ TotalChars(history) <= 10000
        /\ \A i \in DOMAIN history : DOMAIN history[i] = {"role", "content"}

\* C7 witness: more than 10 messages and more than 10,000 characters are
\* stored, and the history built from them stops inside the first ten
C7_Witness ==
    /\ Len(chat_message) > 10
    /\ TotalChars(Entries(chat_message)) > 10000
    /\ Len(build_chat_history("u1")) \in 1..9

\* a base64 image signature or an attachment URL
HasImageData(content) ==
    \/ Contains(content, "data:image")
    \/ Contains(content, "/9j/")
    \/ Contains(content, "https://")

\* C8: no entry of a chat_history holds a base64 image signature or an
\* attachment URL, whatever content and attachment fields were stored.
C8_NoImageDataInHistory ==
    \A u \in Users :
        LET history == build_chat_history(u)
        IN  \A i \in DOMAIN history : ~HasImageData(history[i].content)

\* C9: for a user whose simulated_day is D, every scheduled meal and every
\* scheduled exercise of the built context is a plan row of day D, after
\* any simulated-day updates.
C9_ScheduledOnlyForDay ==
    \A u \in Users :
        LET context == build_context(u)
            D       == user[u].simulated_day
        IN  /\ context.simulated_day = D
            /\ \A i \in DOMAIN context.scheduled_meals :
                   /\ \E mp \in MealPlan :
                          /\ mp.item_name = context.scheduled_meals[i].item_name
                          /\ mp.day_of_week = D
                   /\ \A mp \in MealPlan :
                          (mp.user_id = u
                           /\ mp.item_name = context.scheduled_meals[i].item_name)
                          => mp.day_of_week = D
            /\ \A i \in DOMAIN context.scheduled_exercises :
                   /\ \E r \in TrainingRoutine :
                          /\ r.exercise_name = context.scheduled_exercises[i].name
                          /\ r.day_of_week = D
                   /\ \A r \in TrainingRoutine :
                          (r.program_id = user[u].selected_program_id
                           /\ r.exercise_name = context.scheduled_exercises[i].name)
                          => r.day_of_week = D

\* C9 witness: after two day updates u1 is on day 1 and the context holds
\* the meal and the exercise planned for day 1
C9_Witness ==
    /\ n_day_updates = 2
    /\ user["u1"].simulated_day = 1
    /\ Len(build_context("u1").scheduled_meals) = 1
    /\ build_context("u1").scheduled_meals[1].item_name = "Chicken Rice"
    /\ build_context("u1").scheduled_exercises[1].name = "Deadlift"

\* C10: a context built for user A holds only A's data: its chat history is
\* made of A's messages, its completed exercises and consumed totals of A's
\* logs, its scheduled meals of A's meal plan and its scheduled exercises of
\* A's program, whatever another user B has stored.
C10_TenantIsolation ==
    \A A \in Users :
        LET context == build_context(A)
            D       == user[A].simulated_day
            mine(rows) == SelectSeq(rows, LAMBDA l : l.user_id = A /\ l.simulated_day = D)
        IN  /\ context.user_id = A
            /\ \A i \in DOMAIN context.chat_history :
                   \E j \in DOMAIN chat_message :
                       /\ chat_message[j].user_id = A
                       /\ chat_message[j].role = context.chat_history[i].role
                       /\ chat_message[j].content = context.chat_history[i].content
            /\ \A i \in DOMAIN context.completed_exercises :
                   \E j \in DOMAIN exercise_log :
                       /\ exercise_log[j].user_id = A
                       /\ exercise_log[j].exercise_name = context.completed_exercises[i].name
            /\ context.workouts_completed = Len(mine(exercise_log))
            /\ context.calories_consumed
                   = Sum([i \in DOMAIN mine(meal_log) |-> mine(meal_log)[i].calories])
            /\ \A i \in DOMAIN context.scheduled_meals :
                   \E mp \in MealPlan :
                       /\ mp.user_id = A
                       /\ mp.item_name = context.scheduled_meals[i].item_name
            /\ \A i \in DOMAIN context.scheduled_exercises :
                   \E r \in TrainingRoutine :
                       /\ r.program_id = user[A].selected_program_id
                       /\ r.exercise_name = context.scheduled_exercises[i].name

\* C10 witness: u2 has logged an exercise and a chat of its own on the day
\* u1 is on, u1 has logged a meal, and the context of u1 shows no workout
C10_Witness ==
    /\ \E j \in DOMAIN exercise_log :
           /\ exercise_log[j].user_id = "u2"
           /\ exercise_log[j].simulated_day = user["u1"].simulated_day
    /\ \E j \in DOMAIN meal_log : meal_log[j].user_id = "u1"
    /\ build_context("u1").workouts_completed = 0
    /\ build_context("u1").calories_consumed > 0
    /\ Len(build_context("u1").chat_history) = 2

\* a step in which POST /chat/messages is answered for request r
SendAnswered(r) == r \in sends /\ r \notin sends' /\ last'.op = "send" /\ last'.request = r

\* C11: when a text message containing "reset" is answered, the action is
\* RESET and the daily summary of the user's simulated day, read right after,
\* shows zero consumed calories and zero completed workouts, whether the
\* earlier logs came from chat messages, confirmed proposals or POST /logs/*.
C11_ResetZeroesSummary ==
    [][\A r \in sends :
          (SendAnswered(r) /\ r.attachment_type = "none"
              /\ Contains(Lower(r.content), "reset")) =>
             /\ last'.status = 200
             /\ last'.action_type = "reset"
             /\ get_todays_summary(r.user_id)'.calories_consumed = 0
             /\ get_todays_summary(r.user_id)'.workouts_completed = 0]_vars

\* a reset is answered after a confirmed proposal had been logged on the
\* same simulated day
C11_Witness ==
    /\ last.op = "send" /\ last.status = 200 /\ last.action_type = "reset"
    /\ n_day_updates = 0
    /\ Len(chat_message) = 4
    /\ chat_message[2].action_type = "propose_exercise"
    /\ IsTracked(chat_message[2])
    /\ get_todays_summary("u1").workouts_completed = 0
    /\ get_todays_summary("u1").calories_consumed = 0

\* C12: when a text message containing "reset" is answered, GET /logs/today
\* read right after returns no meal log and no exercise log for the user,
\* whatever logging and simulated-day changes came before.
C12_ResetEmptiesTodaysLogs ==
    [][\A r \in sends :
          (SendAnswered(r) /\ r.attachment_type = "none"
              /\ Contains(Lower(r.content), "reset")) =>
             /\ get_todays_logs(r.user_id)'.meal_logs = << >>
             /\ get_todays_logs(r.user_id)'.exercise_logs = << >>]_vars

GenerativeExtraction(r, env) ==
    /\ r.attachment_type = "none"
    /\ ~Contains(Lower(r.content), "reset")
    /\ ~(has_food_keywords(r.content) /\ parse_food(r.content, r.user_id) # Nil)
    /\ has_exercise_keywords(r.content)
    /\ env.llm /\ env.extract # Nil /\ env.extract.kind = "json"
    /\ Get(env.extract.data, "exercise_name", None) \notin {None, ""}
    /\ \A k \in {"sets", "reps", "weight_kg"} : Get(env.extract.data, k, 0) # Null

\* the names of the exercises scheduled for the user's simulated day
ScheduledNames(user_id) ==
    {build_context(user_id).scheduled_exercises[i].name :
        i \in DOMAIN build_context(user_id).scheduled_exercises}

\* C14: in the generative exercise path an extracted exercise that is not
\* among today's scheduled exercises is answered NONE with a message listing
\* today's plan when there is one and NONE with a rest-day message when there
\* is none; LOG_EXERCISE is answered only for an exercise of today's plan.
C14_GenerativeExerciseValidated ==
    [][\A r \in sends, env \in DayEnvs :
          (SendFinish(r, env) /\ GenerativeExtraction(r, env)) =>
             LET exercise_name == env.extract.data.exercise_name
                 in_plan == \E n \in ScheduledNames(r.user_id) :
                                Lower(n) = Lower(exercise_name)
             IN  /\ last'.status = 200
                 /\ (~in_plan /\ ScheduledNames(r.user_id) # {}) =>
                        /\ last'.action_type = "none"
                        /\ last'.action_data = Nil
                        /\ Contains(last'.content, "is not in today's workout plan")
                        /\ \A n \in ScheduledNames(r.user_id) :
                               Contains(last'.content, n)
                 /\ (~in_plan /\ ScheduledNames(r.user_id) = {}) =>
                        /\ last'.action_type = "none"
                        /\ last'.action_data = Nil
                        /\ Contains(last'.content, "rest day")
                 /\ last'.action_type = "log_exercise" =>
                        /\ in_plan
                        /\ last'.action_data.exercise_name = exercise_name]_vars

\* "Bench Press" was extracted on a day whose plan is the Deadlift, and
\* refused with the plan listed
C14_Witness ==
    /\ last.op = "send" /\ last.status = 200
    /\ last.request.content = "bench press 3x10 60kg"
    /\ last.action_type = "none"
    /\ Contains(last.content, "is not in today's workout plan")
    /\ Contains(last.content, "Deadlift")
    /\ exercise_log = << >>

\* C15: process_message_async never raises: for every message and every
\* outcome of the language model and of the vision analysis, results with
\* null fields included, it returns a reply with a content and an action
\* type.
C15_DecideNeverRaises ==
    [][\A r \in sends, env \in Envs :
          SendFinish(r, env) =>
             \E reply \in {process_message_async(r.content, r.attachment_type,
                                r.user_id, r.image_base64, r.image_url, env)} :
                /\ ~reply.raised
                /\ reply.content # ""
                /\ reply.action_type \in ActionTypes]_vars

\* C16: every operation of the provider (generate, extract_json,
\* analyze_image, extract_json_from_image) makes at most 3 attempts, sleeps
\* 2^attempt seconds after its attempt-th failed attempt, goes on to a further
\* attempt only after a rate-limit failure, and does go on after a rate-limit
\* failure as long as fewer than 3 attempts were made.
C16_RetryOnRateLimitOnly ==
    llm_call.pc \in {"running", "returned"} =>
       /\ Len(llm_call.seen) <= 3
       /\ Len(llm_call.slept) = llm_call.attempt
       /\ \A i \in DOMAIN llm_call.slept : llm_call.slept[i] = Pow2(i)
       /\ \A i \in 1..(Len(llm_call.seen) - 1) : llm_call.seen[i].class = "rate_limit"
       /\ (llm_call.pc = "returned" /\ llm_call.seen # << >>
             /\ llm_call.seen[Len(llm_call.seen)].class = "rate_limit") =>
              Len(llm_call.seen) = 3

\* the outcome of the last request of the call
LastSeen == llm_call.seen[Len(llm_call.seen)]

\* C17: no operation of the provider raises to its caller: after a timeout,
\* after output that is missing or is no JSON, and after the last allowed
\* rate-limit failure the call returns, None from generate and analyze_image
\* and an empty list from extract_json and extract_json_from_image; and every
\* call that was started returns.
C17_ExtractorNeverRaises ==
    /\ [](llm_call.pc # "raised")
    /\ []((llm_call.pc = "returned" /\ llm_call.seen # << >>) =>
            /\ (/\ llm_call.op \in {"generate", "analyze_image"}
                /\ \/ LastSeen.class \in {"timeout", "rate_limit"}
                   \/ LastSeen.kind = "response" /\ LastSeen.text = None) =>
                   llm_call.result = ReturnNone
            /\ (/\ llm_call.op \in {"extract_json", "extract_json_from_image"}
                /\ LastSeen.class \in {"timeout", "malformed", "rate_limit"}) =>
                   llm_call.result = ReturnList(<< >>))
    /\ (llm_call.pc = "running" ~> llm_call.pc = "returned")

\* extract_json_from_image gave up after three rate-limit failures and
\* returned the empty list
C17_Witness ==
    /\ llm_call.pc = "returned"
    /\ llm_call.op = "extract_json_from_image"
    /\ Len(llm_call.seen) = 3
    /\ \A i \in 1..3 : llm_call.seen[i].class = "rate_limit"
    /\ llm_call.slept = <<2, 4>>
    /\ llm_call.result = ReturnList(<< >>)

\* the known food names that a text contains, whatever its casing
NamesIn(content) == {F \in FoodNames : Contains(Lower(content), F)}

\* a text message that the routing hands to the food matcher
FoodPath(r) == r.attachment_type = "none" /\ ~Contains(Lower(r.content), "reset")

TableIndex(F) == CHOOSE i \in DOMAIN FOOD_DB : FOOD_DB[i].name = F

\* C18 (as stated): for any two known food names A and B where A is a
\* substring of B, a message containing B is classified as B and never as
\* A, whatever other text the message contains
C18_SuperstringWins ==
    [][\A r \in sends :
          SendAnswered(r) /\ FoodPath(r) =>
             \E names \in {NamesIn(r.content)} :
                \A A \in FoodNames, B \in names :
                    A # B /\ Contains(B, A) =>
                       /\ last'.status = 200
                       /\ last'.action_type = "log_food"
                       /\ last'.action_data.food = B]_vars

\* C18 (amended): a text message without "reset" that contains a known food
\* name B is logged as the longest known food name it contains, the first
\* of the table among equally long ones; so it is never classified as a
\* known name A that is a proper substring of B, and it is classified as B
\* when it contains no other known name at least as long as B
C18_LongestNameWins ==
    [][\A r \in sends :
          SendAnswered(r) /\ FoodPath(r) =>
             \E names \in {NamesIn(r.content)} :
                names # {} =>
                   /\ last'.status = 200
                   /\ last'.action_type = "log_food"
                   /\ \E F \in names :
                         /\ last'.action_data.food = F
                         /\ \A G \in names :
                               \/ Len(G) < Len(F)
                               \/ Len(G) = Len(F) /\ TableIndex(F) <= TableIndex(G)
                   /\ \A A \in FoodNames, B \in names :
                         A # B /\ Contains(B, A) =>
                            /\ last'.action_data.food # A
                            /\ (\A G \in names \ {B} : Len(G) < Len(B)) =>
                                  last'.action_data.food = B]_vars

\* a message naming the dish "protein shake" and the equally long "chicken
\* salad" has been answered: it was logged as chicken salad
C18_Witness ==
    /\ last.op = "send"
    /\ last.status = 200
    /\ FoodPath(last.request)
    /\ {"protein shake", "chicken salad", "shake", "chicken"}
           \subseteq NamesIn(last.request.content)
    /\ last.action_type = "log_food"
    /\ last.action_data.food = "chicken salad"

\* a food trigger word occurs in the text
HasFoodTrigger(content) ==
    \E keyword \in FOOD_KEYWORDS : Contains(Lower(content), keyword)

\* C19 (as stated): for all text messages that contain a food trigger word
\* but no known food name, the emitted action is NONE and the action
\* payload is absent
C19_TriggerWithoutFoodIsNone ==
    [][\A r \in sends :
          (/\ SendAnswered(r)
           /\ r.attachment_type = "none"
           /\ HasFoodTrigger(r.content)
           /\ NamesIn(r.content) = {}) =>
             /\ last'.status = 200
             /\ last'.action_type = "none"
             /\ last'.action_data = Nil]_vars

\* C19 (amended): for all text messages that contain a food trigger word
\* but no known food name, no exercise trigger word and not the word
\* "reset", the emitted action is NONE and the action payload is absent
C19_UnmatchedTriggerIsNone ==
    [][\A r \in sends :
          (/\ SendAnswered(r)
           /\ FoodPath(r)
           /\ HasFoodTrigger(r.content)
           /\ NamesIn(r.content) = {}
           /\ ~has_exercise_keywords(r.content)) =>
             /\ last'.status = 200
             /\ last'.action_type = "none"
             /\ last'.action_data = Nil]_vars

\* "I ate some pizza" has been answered by the provider's chat reply, with
\* no action
C19_Witness ==
    /\ last.op = "send"
    /\ last.status = 200
    /\ last.request.content = "I ate some pizza"
    /\ HasFoodTrigger(last.request.content)
    /\ NamesIn(last.request.content) = {}
    /\ ~has_exercise_keywords(last.request.content)
    /\ last.action_type = "none"
    /\ last.content = "Keep it up!"

MacroFields == {"calories", "protein_g", "carbs_g", "fat_g"}

\* the values of the food table under the names of the payload's fields
TableValues(F) ==
    LET macros == FOOD_DB[TableIndex(F)].macros
    IN  [calories |-> macros.calories, protein_g |-> macros.protein,
         carbs_g |-> macros.carbs, fat_g |-> macros.fat]

\* C20: for any known food F that is logged from a text message, the
\* LOG_FOOD payload's calories, protein, carbs and fat exactly equal F's
\* values in the food table, and the meal log subsequently created from that
\* payload stores the same values
C20_PayloadFidelity ==
    [][\A r \in sends :
          (/\ SendAnswered(r)
           /\ r.attachment_type = "none"
           /\ last'.status = 200
           /\ last'.action_type = "log_food") =>
             \E F \in NamesIn(r.content) :
                /\ last'.action_data.food = F
                /\ \A k \in MacroFields : last'.action_data[k] = TableValues(F)[k]
                /\ chat_message'[last'.id].action_data = last'.action_data
                /\ Len(meal_log') = Len(meal_log) + 1
                /\ SubSeq(meal_log', 1, Len(meal_log)) = meal_log
                /\ \E row \in {meal_log'[Len(meal_log')]} :
                      /\ row.user_id = r.user_id
                      /\ \A k \in MacroFields : row[k] = TableValues(F)[k]]_vars

\* a banana (1.3 g protein, 0.4 g fat) has been logged from a text message
\* after another food
C20_Witness ==
    /\ last.op = "send"
    /\ last.status = 200
    /\ last.action_type = "log_food"
    /\ last.action_data.food = "banana"
    /\ Len(meal_log) = 2
    /\ meal_log[2].protein_g = 13
    /\ meal_log[2].fat_g = 4

\* C21: every LOG_EXERCISE or PROPOSE_EXERCISE payload emitted by the
\* engine, on the deterministic path, the generative path and the image
\* path alike, has sets > 0, reps > 0 and weight_kg >= 0
C21_ExercisePayloadBounds ==
    (/\ last.op = "send"
     /\ last.status = 200
     /\ last.action_type \in {"log_exercise", "propose_exercise"}) =>
        /\ last.action_data.sets > 0
        /\ last.action_data.reps > 0
        /\ last.action_data.weight_kg >= 0

\* an exercise trigger word occurs in the text and no digit does
KeywordWithoutNumbers(content) ==
    /\ has_exercise_keywords(content)
    /\ \A i \in 1..Len(content) : ~IsDigit(Char(content, i))

\* C22: a message with an exercise keyword but no embedded numbers yields an
\* exercise payload with sets = 3, reps = 10 and weight_kg = 0.0 exactly
C22_DefaultsWithoutNumbers ==
    [][\A r \in sends :
          (/\ SendAnswered(r)
           /\ r.attachment_type = "none"
           /\ KeywordWithoutNumbers(r.content)
           /\ last'.status = 200
           /\ last'.action_type = "log_exercise") =>
             /\ last'.action_data.sets = 3
             /\ last'.action_data.reps = 10
             /\ last'.action_data.weight_kg = 0]_vars

\* the row of the persona's demo user in a user table (the persona has
\* logged in before)
DemoUserIn(users, persona) ==
    users[First(users, LAMBDA u : u.email = PERSONAS[persona].email)]

RoutineCount(routines, program_id) ==
    Cardinality({i \in DOMAIN routines : routines[i].program_id = program_id})

\* C23: logging in repeatedly as the same demo persona returns the same user
\* identity each time and never creates duplicate training routines: the
\* number of routines of the persona's training program stays what it was
\* after the first login, whatever logins happen in between
C23_ReloginIdempotent ==
    [][\A q \in DOMAIN PERSONAS :
          demo_login(q) =>
             \A persona \in {p \in DOMAIN PERSONAS : demo_db.n_logins[p] >= 1} :
                \E before \in {DemoUserIn(demo_db.user, persona)},
                   after \in {DemoUserIn(demo_db'.user, persona)} :
                   /\ after.id = before.id
                   /\ after.selected_program_id = before.selected_program_id
                   /\ RoutineCount(demo_db'.training_routine, after.selected_program_id)
                        = RoutineCount(demo_db.training_routine, before.selected_program_id)
                   /\ Len(demo_db'.user) = Len(demo_db.user) + (IF demo_db.n_logins[q] = 0 THEN 1 ELSE 0)
                   /\ (q = persona => last'.status = 200 /\ last'.subject = before.id)]_vars

\* the persona "cut" has logged in three times, other personas in between:
\* its program holds the two routines of the file
C23_Witness ==
    /\ demo_db.n_logins["cut"] = 3
    /\ demo_db.n_logins["bulk"] >= 1
    /\ last.op = "demo_login"
    /\ last.persona = "cut"
    /\ last.status = 200
    /\ last.subject = DemoUserIn(demo_db.user, "cut").id
    /\ RoutineCount(demo_db.training_routine,
                    DemoUserIn(demo_db.user, "cut").selected_program_id) = 2

\* the provider gives no usable extraction: there is none, it gives no
\* answer, or its answer holds no JSON that parses
NoExtraction(env) ==
    \/ ~env.llm
    \/ env.extract = Nil
    \/ env.extract.kind \in {"nojson", "badjson"}

\* the canonical names of the aliases that a text contains
AliasesIn(content) ==
    {EXERCISE_MAP[i].exercise : i \in {j \in DOMAIN EXERCISE_MAP :
                                    Contains(Lower(content), EXERCISE_MAP[j].keyword)}}

\* C24: if the generative extractor errors, is unavailable, or returns no
\* usable response for an exercise message, the engine falls back to the
\* deterministic alias matcher, which performs no schedule validation and
\* always emits LOG_EXERCISE when an alias matches, including on a day whose
\* scheduled_exercises is empty
C24_FallbackAlwaysLogs ==
    [][\A r \in sends, env \in ExerciseEnvs :
          (/\ NoExtraction(env)
           /\ FoodPath(r)
           /\ SendFinish(r, env)
           /\ NamesIn(r.content) = {}
           /\ AliasesIn(r.content) # {}) =>
             /\ last'.status = 200
             /\ last'.action_type = "log_exercise"
             /\ last'.action_data.exercise_name \in AliasesIn(r.content)
             /\ Len(exercise_log') = Len(exercise_log) + 1
             /\ exercise_log'[Len(exercise_log')].exercise_name
                  = last'.action_data.exercise_name]_vars

\* on a rest day (u2, day 1) a message has been answered LOG_EXERCISE and the
\* exercise is in the log of that day
C24_Witness ==
    /\ user["u2"].simulated_day = 1
    /\ ScheduledNames("u2") = {}
    /\ last.op = "send"
    /\ last.status = 200
    /\ last.action_type = "log_exercise"
    /\ \E i \in DOMAIN exercise_log :
          /\ exercise_log[i].simulated_day = 1
          /\ exercise_log[i].exercise_name = last.action_data.exercise_name

\* the scheduled exercises of the user's day that have no log on that day
Unstarted(user_id, logs) ==
    {n \in ScheduledNames(user_id) :
        ~\E i \in DOMAIN logs :
            /\ logs[i].user_id = user_id
            /\ logs[i].simulated_day = user[user_id].simulated_day
            /\ Lower(logs[i].exercise_name) = Lower(n)}

\* C25: the progress clause of an exercise reply states how many of today's
\* scheduled exercises remain unstarted or incomplete after this log, for
\* any sequence of earlier logs that day; it notes "extra work" when the
\* exercise is not part of the plan and adds nothing when there is no plan
C25_ExerciseProgressClause ==
    [][\A r \in sends :
          (/\ SendAnswered(r)
           /\ r.attachment_type = "none"
           /\ last'.status = 200
           /\ last'.action_type = "log_exercise") =>
             \E plan \in {ScheduledNames(r.user_id)},
                left \in {Cardinality(Unstarted(r.user_id, exercise_log'))} :
                IF plan = {}
                THEN ~Contains(last'.content, "\n\n")
                ELSE IF last'.action_data.exercise_name \notin plan
                THEN Contains(last'.content, "Extra work!")
                ELSE IF left > 0
                THEN Contains(last'.content,
                              "! " \o ToString(left) \o " exercises remaining")
                ELSE Contains(last'.content, "Great job completing your workout!")]_vars

\* C26: the progress clause of a food reply is computed from the running
\* calorie total after the log, which is the total consumed before the
\* message plus the calories of this food counted once; it states the kcal
\* remaining against the target or that the target is reached, and the
\* action and its payload are those the engine emits without any clause
C26_FoodProgressClause ==
    [][\A r \in sends :
          (/\ SendAnswered(r)
           /\ r.attachment_type = "none"
           /\ last'.status = 200
           /\ last'.action_type = "log_food") =>
             \E before \in {get_todays_summary(r.user_id)},
                after \in {get_todays_summary(r.user_id)'},
                bare \in {parse_food(r.content, None)} :
                /\ after.calories_consumed
                       = before.calories_consumed + last'.action_data.calories
                /\ IF after.calories_target - after.calories_consumed > 0
                   THEN Contains(last'.content,
                            "(" \o ToString(after.calories_target
                                            - after.calories_consumed)
                                \o " kcal remaining)")
                   ELSE /\ Contains(last'.content, "You've reached ")
                        /\ ~Contains(last'.content, "kcal remaining")
                /\ bare # Nil
                /\ last'.action_type = bare.action_type
                /\ last'.action_data = bare.action_data]_vars

\* C26 happens: a food is logged on top of an earlier log of the day and
\* the reply still states a remainder
C26_Witness ==
    /\ last.op = "send" /\ last.status = 200
    /\ last.action_type = "log_food"
    /\ get_todays_summary("u1").calories_consumed > last.action_data.calories
    /\ Contains(last.content, "kcal remaining")

\* the meal-plan rows of the user's simulated day
PlanOfDay(u) ==
    {mp \in MealPlan : mp.user_id = u /\ mp.day_of_week = user[u].simulated_day}

\* the context builder and GET /summary/today give the same targets
SameTargets(u) ==
    /\ build_context(u).calories_target = get_todays_summary(u).calories_target
    /\ build_context(u).protein_target = get_todays_summary(u).protein_target

\* the total of one field over a set of plan rows
RECURSIVE PlanTotal(_, _)
PlanTotal(rows, field) ==
    IF rows = {} THEN 0
    ELSE LET row == CHOOSE x \in rows : TRUE
         IN  row[field] + PlanTotal(rows \ {row}, field)

\* the first tier: the sums over the plan of the day
PlanTier(u) ==
    PlanOfDay(u) # {} =>
        /\ build_context(u).calories_target = PlanTotal(PlanOfDay(u), "calories")
        /\ build_context(u).protein_target = PlanTotal(PlanOfDay(u), "protein_g")

\* the second tier: the calculation collaborator's daily calories
ComputedTier(u) ==
    PlanOfDay(u) = {} /\ calculate_energy_metrics(user[u]) # Nil =>
        /\ build_context(u).calories_target
               = calculate_energy_metrics(user[u]).estimated_daily_calories
        /\ build_context(u).protein_target
               = user[u].protein_g_per_kg * user[u].weight_kg

\* C27 as stated: the targets are the sums over the day's meal plan when
\* there is one, otherwise the computed target of the calculation
\* collaborator, and when that is unavailable 2000 kcal and 150 g of
\* protein; the context builder and the daily summary give the same targets
C27_ThreeTierTargets ==
    \A u \in Users :
        /\ SameTargets(u)
        /\ PlanTier(u)
        /\ ComputedTier(u)
        /\ PlanOfDay(u) = {} /\ calculate_energy_metrics(user[u]) = Nil =>
               /\ build_context(u).calories_target = 2000
               /\ build_context(u).protein_target = 1500

\* C27 amended: as stated, except that without a plan the protein target is
\* the protein ratio times the body weight whenever the weight is known,
\* also when the calorie calculation is unavailable, and 150 g only when
\* the weight is unknown
C27_TargetsPerQuantity ==
    \A u \in Users :
        /\ SameTargets(u)
        /\ PlanTier(u)
        /\ ComputedTier(u)
        /\ PlanOfDay(u) = {} /\ calculate_energy_metrics(user[u]) = Nil =>
               /\ build_context(u).calories_target = 2000
               /\ build_context(u).protein_target
                      = IF user[u].weight_kg # Null
                        THEN user[u].protein_g_per_kg * user[u].weight_kg
                        ELSE 1500

\* C27 happens: a user without a plan for the day whose weight is known
\* while the calorie calculation is unavailable
C27_Witness ==
    /\ PlanOfDay("u2") = {}
    /\ user["u2"].weight_kg # Null
    /\ calculate_energy_metrics(user["u2"]) = Nil
    /\ get_todays_summary("u2").calories_target = 2000
    /\ get_todays_summary("u2").protein_target # 1500

\* the rows of the user's chat with the given role
ChatRows(u, role) ==
    {i \in DOMAIN chat_message :
        chat_message[i].user_id = u /\ chat_message[i].role = role}

\* C28: each completed send-message request has appended to the user's chat
\* one user message and one assistant reply after it, so that apart from
\* the requests still in flight no user message is without its reply,
\* whatever the engine and the creation of the log do and however the
\* requests of one user interleave
C28_EveryUserMessageAnswered ==
    \A u \in Users :
        /\ Cardinality(ChatRows(u, "user"))
               = Cardinality(ChatRows(u, "assistant"))
                   + Cardinality({r \in sends : r.user_id = u})
        /\ \A i \in ChatRows(u, "assistant") :
               Cardinality({j \in ChatRows(u, "user") : j < i})
                   >= Cardinality({j \in ChatRows(u, "assistant") : j <= i})

\* C29: every meal or exercise log is stamped with the simulated day its
\* user has when the row is created, whether a chat LOG_* action, the
\* confirmation of a proposal or POST /logs/meal and POST /logs/exercise
\* creates it
C29_LogsStampedWithSimulatedDay ==
    [][/\ Len(meal_log') > Len(meal_log) =>
              \E row \in {meal_log'[Len(meal_log')]} :
                  row.simulated_day = user[row.user_id].simulated_day
       /\ Len(exercise_log') > Len(exercise_log) =>
              \E row \in {exercise_log'[Len(exercise_log')]} :
                  row.simulated_day = user[row.user_id].simulated_day]_vars

\* the rows of a log table other than those of the user's simulated day
RowsKept(logs, user_id) ==
    SelectSeq(logs, LAMBDA row : \/ row.user_id # user_id
                                 \/ row.simulated_day # user[user_id].simulated_day)

\* C30: a RESET deletes only the requesting user's meal and exercise logs of
\* that user's current simulated day: the logs of other simulated days and
\* of other users, every chat message (the isTracked flag of confirmed
\* proposals included) and the users' profiles are left as they were
C30_ResetFrame ==
    [][\A r \in sends :
          (/\ SendAnswered(r)
           /\ last'.status = 200
           /\ last'.action_type = "reset") =>
             /\ meal_log' = RowsKept(meal_log, r.user_id)
             /\ exercise_log' = RowsKept(exercise_log, r.user_id)
             /\ user' = user
             /\ Len(chat_message') = Len(chat_message) + 1
             /\ SubSeq(chat_message', 1, Len(chat_message)) = chat_message
             /\ demo_db' = demo_db]_vars

\* C30 happens: a reset is answered while the chat holds a confirmed
\* proposal, and the logs still hold a row of the same user on another
\* simulated day and a row of another user
C30_Witness ==
    /\ last.op = "send" /\ last.status = 200 /\ last.action_type = "reset"
    /\ \E i \in DOMAIN chat_message :
           /\ chat_message[i].action_type \in {"propose_food", "propose_exercise"}
           /\ "isTracked" \in DOMAIN chat_message[i].action_data
           /\ chat_message[i].action_data.isTracked = TRUE
    /\ \E j \in DOMAIN exercise_log :
           /\ exercise_log[j].user_id = last.request.user_id
           /\ exercise_log[j].simulated_day
                  # user[last.request.user_id].simulated_day
    /\ \E j \in DOMAIN meal_log : meal_log[j].user_id # last.request.user_id
====
